---- MODULE Spec2Model ----
(***************************************************************************)
(* Turn resolution engine of ai-arena (ai_arena/game_engine/physics.py).   *)
(*                                                                         *)
(* Python objects live in a heap (a sequence of records indexed by         *)
(* reference), so that aliasing and in-place mutation are modelled as the  *)
(* interpreter performs them.  Vec2D values are never mutated in place by  *)
(* the engine (every update rebinds the attribute to a new Vec2D), so they *)
(* are kept as values inside the owning record.                            *)
(*                                                                         *)
(* Floats are fixed-point integers:                                        *)
(*   time      : 0.1 s            (one physics tick)                       *)
(*   angle     : 0.1 degree       (0 .. 3599)                              *)
(*   energy    : 0.0001 AE        (rate [0.001 AE/s] * dt [0.1 s])         *)
(*   velocity  : 0.0001 unit/s    (cos * speed)                            *)
(*   position  : 0.00001 unit     (velocity * dt)                          *)
(*   shields   : 1 point                                                   *)
(* Distances are compared in 0.01 units (see magnitude).                   *)
(***************************************************************************)
EXTENDS Integers, Sequences, FiniteSets, TLC

VARIABLES
  heap,            \* reference -> object (ShipState, TorpedoState, BlastZone, Orders, GameState)
  state,           \* caller: reference of the GameState passed to resolve_turn
  orders_a,        \* caller: reference of the Orders passed for ship_a
  orders_b,        \* caller: reference of the Orders passed for ship_b
  new_state,       \* resolve_turn local: reference of the copy being advanced (0 before the first call)
  valid_orders_a,  \* resolve_turn local: reference returned by _validate_orders for ship_a
  valid_orders_b,  \* resolve_turn local: reference returned by _validate_orders for ship_b
  events,          \* resolve_turn local: the event list
  substep,         \* resolve_turn local: loop counter of the substep loop
  pc,              \* position of the call: "idle", "loop", "returned"
  call,            \* observer: what the caller passed in, by value, at call time
  at_eval,         \* observer: the state by value when the substep loop has ended
  prev,            \* observer: the previous call and what it returned
  calls            \* number of resolve_turn calls made so far

vars == << heap, state, orders_a, orders_b, new_state, valid_orders_a,
           valid_orders_b, events, substep, pc, call, at_eval, prev, calls >>

\* ------------------------------------------------------------------------
\* Parameter Set: the values of config.json
\* ------------------------------------------------------------------------
decision_interval_seconds == 150
physics_tick_rate_seconds == 1
max_ae == 1000000
ae_regen_per_second == 333
base_speed_units_per_second == 3
forward_ae_per_second == 330
diagonal_ae_per_second == 530
perpendicular_ae_per_second == 670
backward_ae_per_second == 670
backward_diagonal_ae_per_second == 800
stop_ae_per_second == 0
none_ae_per_second == 0
soft_turn_ae_per_second == 130
soft_turn_degrees_per_second == 1
hard_turn_ae_per_second == 330
hard_turn_degrees_per_second == 3
wide_arc_degrees == 900
wide_range_units == 3000
wide_damage == 15
wide_cooldown_seconds == 35
focused_arc_degrees == 100
focused_range_units == 5000
focused_damage == 35
focused_cooldown_seconds == 35
launch_cost_ae == 200000
max_ae_capacity == 400000
speed_units_per_second == 4
max_active_per_ship == 4
ae_burn_straight_per_second == 300
blast_expansion_seconds == 50
blast_persistence_seconds == 600
blast_dissipation_seconds == 50
blast_radius_units == 1500
blast_damage_multiplier_x2 == 3

\* PhysicsEngine.__init__: derived simulation values
fixed_timestep == physics_tick_rate_seconds
action_phase_duration == decision_interval_seconds
substeps == action_phase_duration \div fixed_timestep
ship_speed == base_speed_units_per_second
torpedo_speed == speed_units_per_second

\* ------------------------------------------------------------------------
\* numpy: sin, cos, arctan2, sqrt on the fixed-point grid
\* ------------------------------------------------------------------------
\* sin(i * 0.1 degree) * 10000, i = 0 .. 900
SinQ ==
  << 0, 17, 35, 52, 70, 87, 105, 122, 140, 157, 175, 192, 209, 227, 244,
     262, 279, 297, 314, 332, 349, 366, 384, 401, 419, 436, 454, 471, 488, 506,
     523, 541, 558, 576, 593, 610, 628, 645, 663, 680, 698, 715, 732, 750, 767,
     785, 802, 819, 837, 854, 872, 889, 906, 924, 941, 958, 976, 993, 1011, 1028,
     1045, 1063, 1080, 1097, 1115, 1132, 1149, 1167, 1184, 1201, 1219, 1236, 1253, 1271, 1288,
     1305, 1323, 1340, 1357, 1374, 1392, 1409, 1426, 1444, 1461, 1478, 1495, 1513, 1530, 1547,
     1564, 1582, 1599, 1616, 1633, 1650, 1668, 1685, 1702, 1719, 1736, 1754, 1771, 1788, 1805,
     1822, 1840, 1857, 1874, 1891, 1908, 1925, 1942, 1959, 1977, 1994, 2011, 2028, 2045, 2062,
     2079, 2096, 2113, 2130, 2147, 2164, 2181, 2198, 2215, 2233, 2250, 2267, 2284, 2300, 2317,
     2334, 2351, 2368, 2385, 2402, 2419, 2436, 2453, 2470, 2487, 2504, 2521, 2538, 2554, 2571,
     2588, 2605, 2622, 2639, 2656, 2672, 2689, 2706, 2723, 2740, 2756, 2773, 2790, 2807, 2823,
     2840, 2857, 2874, 2890, 2907, 2924, 2940, 2957, 2974, 2990, 3007, 3024, 3040, 3057, 3074,
     3090, 3107, 3123, 3140, 3156, 3173, 3190, 3206, 3223, 3239, 3256, 3272, 3289, 3305, 3322,
     3338, 3355, 3371, 3387, 3404, 3420, 3437, 3453, 3469, 3486, 3502, 3518, 3535, 3551, 3567,
     3584, 3600, 3616, 3633, 3649, 3665, 3681, 3697, 3714, 3730, 3746, 3762, 3778, 3795, 3811,
     3827, 3843, 3859, 3875, 3891, 3907, 3923, 3939, 3955, 3971, 3987, 4003, 4019, 4035, 4051,
     4067, 4083, 4099, 4115, 4131, 4147, 4163, 4179, 4195, 4210, 4226, 4242, 4258, 4274, 4289,
     4305, 4321, 4337, 4352, 4368, 4384, 4399, 4415, 4431, 4446, 4462, 4478, 4493, 4509, 4524,
     4540, 4555, 4571, 4586, 4602, 4617, 4633, 4648, 4664, 4679, 4695, 4710, 4726, 4741, 4756,
     4772, 4787, 4802, 4818, 4833, 4848, 4863, 4879, 4894, 4909, 4924, 4939, 4955, 4970, 4985,
     5000, 5015, 5030, 5045, 5060, 5075, 5090, 5105, 5120, 5135, 5150, 5165, 5180, 5195, 5210,
     5225, 5240, 5255, 5270, 5284, 5299, 5314, 5329, 5344, 5358, 5373, 5388, 5402, 5417, 5432,
     5446, 5461, 5476, 5490, 5505, 5519, 5534, 5548, 5563, 5577, 5592, 5606, 5621, 5635, 5650,
     5664, 5678, 5693, 5707, 5721, 5736, 5750, 5764, 5779, 5793, 5807, 5821, 5835, 5850, 5864,
     5878, 5892, 5906, 5920, 5934, 5948, 5962, 5976, 5990, 6004, 6018, 6032, 6046, 6060, 6074,
     6088, 6101, 6115, 6129, 6143, 6157, 6170, 6184, 6198, 6211, 6225, 6239, 6252, 6266, 6280,
     6293, 6307, 6320, 6334, 6347, 6361, 6374, 6388, 6401, 6414, 6428, 6441, 6455, 6468, 6481,
     6494, 6508, 6521, 6534, 6547, 6561, 6574, 6587, 6600, 6613, 6626, 6639, 6652, 6665, 6678,
     6691, 6704, 6717, 6730, 6743, 6756, 6769, 6782, 6794, 6807, 6820, 6833, 6845, 6858, 6871,
     6884, 6896, 6909, 6921, 6934, 6947, 6959, 6972, 6984, 6997, 7009, 7022, 7034, 7046, 7059,
     7071, 7083, 7096, 7108, 7120, 7133, 7145, 7157, 7169, 7181, 7193, 7206, 7218, 7230, 7242,
     7254, 7266, 7278, 7290, 7302, 7314, 7325, 7337, 7349, 7361, 7373, 7385, 7396, 7408, 7420,
     7431, 7443, 7455, 7466, 7478, 7490, 7501, 7513, 7524, 7536, 7547, 7559, 7570, 7581, 7593,
     7604, 7615, 7627, 7638, 7649, 7660, 7672, 7683, 7694, 7705, 7716, 7727, 7738, 7749, 7760,
     7771, 7782, 7793, 7804, 7815, 7826, 7837, 7848, 7859, 7869, 7880, 7891, 7902, 7912, 7923,
     7934, 7944, 7955, 7965, 7976, 7986, 7997, 8007, 8018, 8028, 8039, 8049, 8059, 8070, 8080,
     8090, 8100, 8111, 8121, 8131, 8141, 8151, 8161, 8171, 8181, 8192, 8202, 8211, 8221, 8231,
     8241, 8251, 8261, 8271, 8281, 8290, 8300, 8310, 8320, 8329, 8339, 8348, 8358, 8368, 8377,
     8387, 8396, 8406, 8415, 8425, 8434, 8443, 8453, 8462, 8471, 8480, 8490, 8499, 8508, 8517,
     8526, 8536, 8545, 8554, 8563, 8572, 8581, 8590, 8599, 8607, 8616, 8625, 8634, 8643, 8652,
     8660, 8669, 8678, 8686, 8695, 8704, 8712, 8721, 8729, 8738, 8746, 8755, 8763, 8771, 8780,
     8788, 8796, 8805, 8813, 8821, 8829, 8838, 8846, 8854, 8862, 8870, 8878, 8886, 8894, 8902,
     8910, 8918, 8926, 8934, 8942, 8949, 8957, 8965, 8973, 8980, 8988, 8996, 9003, 9011, 9018,
     9026, 9033, 9041, 9048, 9056, 9063, 9070, 9078, 9085, 9092, 9100, 9107, 9114, 9121, 9128,
     9135, 9143, 9150, 9157, 9164, 9171, 9178, 9184, 9191, 9198, 9205, 9212, 9219, 9225, 9232,
     9239, 9245, 9252, 9259, 9265, 9272, 9278, 9285, 9291, 9298, 9304, 9311, 9317, 9323, 9330,
     9336, 9342, 9348, 9354, 9361, 9367, 9373, 9379, 9385, 9391, 9397, 9403, 9409, 9415, 9421,
     9426, 9432, 9438, 9444, 9449, 9455, 9461, 9466, 9472, 9478, 9483, 9489, 9494, 9500, 9505,
     9511, 9516, 9521, 9527, 9532, 9537, 9542, 9548, 9553, 9558, 9563, 9568, 9573, 9578, 9583,
     9588, 9593, 9598, 9603, 9608, 9613, 9617, 9622, 9627, 9632, 9636, 9641, 9646, 9650, 9655,
     9659, 9664, 9668, 9673, 9677, 9681, 9686, 9690, 9694, 9699, 9703, 9707, 9711, 9715, 9720,
     9724, 9728, 9732, 9736, 9740, 9744, 9748, 9751, 9755, 9759, 9763, 9767, 9770, 9774, 9778,
     9781, 9785, 9789, 9792, 9796, 9799, 9803, 9806, 9810, 9813, 9816, 9820, 9823, 9826, 9829,
     9833, 9836, 9839, 9842, 9845, 9848, 9851, 9854, 9857, 9860, 9863, 9866, 9869, 9871, 9874,
     9877, 9880, 9882, 9885, 9888, 9890, 9893, 9895, 9898, 9900, 9903, 9905, 9907, 9910, 9912,
     9914, 9917, 9919, 9921, 9923, 9925, 9928, 9930, 9932, 9934, 9936, 9938, 9940, 9942, 9943,
     9945, 9947, 9949, 9951, 9952, 9954, 9956, 9957, 9959, 9960, 9962, 9963, 9965, 9966, 9968,
     9969, 9971, 9972, 9973, 9974, 9976, 9977, 9978, 9979, 9980, 9981, 9982, 9983, 9984, 9985,
     9986, 9987, 9988, 9989, 9990, 9990, 9991, 9992, 9993, 9993, 9994, 9995, 9995, 9996, 9996,
     9997, 9997, 9997, 9998, 9998, 9998, 9999, 9999, 9999, 9999, 10000, 10000, 10000, 10000, 10000,
     10000 >>

TrigScale == 10000
QuarterTurn == 900
HalfTurn == 2 * QuarterTurn
FullTurn == 4 * QuarterTurn

RECURSIVE SinFold(_)
\* sin of an angle r in [0, 2*pi) from the quarter-wave table
SinFold(r) ==
  IF r <= QuarterTurn THEN SinQ[r + 1]
  ELSE IF r <= HalfTurn THEN SinFold(HalfTurn - r)
  ELSE 0 - SinFold(r - HalfTurn)

np_sin(a) == SinFold(a % FullTurn)

np_cos(a) == np_sin(a + QuarterTurn)

\* np.radians: degrees and radians share the 0.1 degree grid
np_radians(deg) == deg

RECURSIVE SqrtSearch(_, _, _)
SqrtSearch(n, lo, hi) ==
  IF lo >= hi THEN lo
  ELSE LET mid == (lo + hi + 1) \div 2 IN
       IF mid * mid <= n THEN SqrtSearch(n, mid, hi) ELSE SqrtSearch(n, lo, mid - 1)

\* largest root whose square fits a 32-bit integer
SqrtMax == 6 * TrigScale
np_sqrt(n) == SqrtSearch(n, 0, SqrtMax)

\* position (0.00001 unit) -> distance grid (0.01 unit), saturating at 300 units
CoarseUnit == TrigScale \div 10
Far == 3 * TrigScale
Coarse(d) ==
  LET c == d \div CoarseUnit IN
  IF c > Far THEN Far ELSE IF c < 0 - Far THEN 0 - Far ELSE c

\* np.arctan2 on the 0.1 degree grid, as an angle in [0, 2*pi): the last grid
\* direction that the vector (x, y) is not clockwise of, searched by bisection
\* inside the quadrant of (x, y)
RECURSIVE AngleSearch(_, _, _, _)
AngleSearch(cy, cx, lo, hi) ==
  IF lo >= hi THEN lo
  ELSE LET mid == (lo + hi + 1) \div 2 IN
       IF np_cos(mid) * cy - np_sin(mid) * cx >= 0
       THEN AngleSearch(cy, cx, mid, hi)
       ELSE AngleSearch(cy, cx, lo, mid - 1)

np_arctan2(y, x) ==
  LET cy == Coarse(y)
      cx == Coarse(x)
      q0 == IF cx > 0 /\ cy >= 0 THEN 0
            ELSE IF cx <= 0 /\ cy > 0 THEN QuarterTurn
            ELSE IF cx < 0 /\ cy <= 0 THEN HalfTurn
            ELSE HalfTurn + QuarterTurn
  IN IF cx = 0 /\ cy = 0 THEN 0
     ELSE AngleSearch(cy, cx, q0, q0 + QuarterTurn - 1)

\* ------------------------------------------------------------------------
\* data_models.py
\* ------------------------------------------------------------------------
Vec2D(x, y) == [x |-> x, y |-> y]
Vec2D_add(p, q) == Vec2D(p.x + q.x, p.y + q.y)
Vec2D_sub(p, q) == Vec2D(p.x - q.x, p.y - q.y)
Vec2D_mul(p, k) == Vec2D(p.x * k, p.y * k)
magnitude(p) ==
  LET cx == Coarse(p.x)
      cy == Coarse(p.y)
  IN np_sqrt(cx * cx + cy * cy)
distance_to(p, q) == magnitude(Vec2D_sub(p, q))

None == << >>
Some(v) == << v >>

ShipState(position, velocity, heading, shields, ae, phaser_config, reconfiguring_phaser, phaser_cooldown_remaining) ==
  [position |-> position, velocity |-> velocity, heading |-> heading,
   shields |-> shields, ae |-> ae, phaser_config |-> phaser_config,
   reconfiguring_phaser |-> reconfiguring_phaser,
   phaser_cooldown_remaining |-> phaser_cooldown_remaining]

TorpedoState(id, position, velocity, heading, ae_remaining, owner, just_launched, detonation_timer) ==
  [id |-> id, position |-> position, velocity |-> velocity, heading |-> heading,
   ae_remaining |-> ae_remaining, owner |-> owner,
   just_launched |-> just_launched, detonation_timer |-> detonation_timer]

BlastZone(id, position, base_damage, phase, age, current_radius, owner) ==
  [id |-> id, position |-> position, base_damage |-> base_damage,
   phase |-> phase, age |-> age, current_radius |-> current_radius,
   owner |-> owner]

GameState(turn, ship_a, ship_b, torpedoes, blast_zones) ==
  [turn |-> turn, ship_a |-> ship_a, ship_b |-> ship_b,
   torpedoes |-> torpedoes, blast_zones |-> blast_zones]

Orders(movement, rotation, weapon_action, torpedo_orders) ==
  [movement |-> movement, rotation |-> rotation,
   weapon_action |-> weapon_action, torpedo_orders |-> torpedo_orders]

Event(type, turn, data) == [type |-> type, turn |-> turn, data |-> data]

\* a torpedo command string, by its parts around the first ":"
ActionStr(head, has_colon, numeric, value) ==
  [head |-> head, has_colon |-> has_colon, numeric |-> numeric, value |-> value]

\* dict.get(key): << >> is None
dict_get(d, key) == IF key \in DOMAIN d THEN Some(d[key]) ELSE None

\* ------------------------------------------------------------------------
\* PhysicsEngine.__init__ tables
\* ------------------------------------------------------------------------
MOVEMENT_DIRECTION_OFFSETS(m) ==
  CASE m = "FORWARD" -> 0
    [] m = "FORWARD_LEFT" -> QuarterTurn \div 2
    [] m = "FORWARD_RIGHT" -> 0 - (QuarterTurn \div 2)
    [] m = "LEFT" -> QuarterTurn
    [] m = "RIGHT" -> 0 - QuarterTurn
    [] m = "BACKWARD" -> HalfTurn
    [] m = "BACKWARD_LEFT" -> 3 * (QuarterTurn \div 2)
    [] m = "BACKWARD_RIGHT" -> 0 - 3 * (QuarterTurn \div 2)
    [] m = "STOP" -> 0

ROTATION_RATES(r) ==
  CASE r = "NONE" -> 0
    [] r = "SOFT_LEFT" -> soft_turn_degrees_per_second
    [] r = "SOFT_RIGHT" -> 0 - soft_turn_degrees_per_second
    [] r = "HARD_LEFT" -> hard_turn_degrees_per_second
    [] r = "HARD_RIGHT" -> 0 - hard_turn_degrees_per_second

MovementTypes == {"STRAIGHT", "SOFT_LEFT", "SOFT_RIGHT", "HARD_LEFT", "HARD_RIGHT",
                  "REVERSE", "REVERSE_LEFT", "REVERSE_RIGHT", "STOP"}

\* degrees of rotation per whole turn, in 0.1 degree
movement_params(m) ==
  CASE m = "STRAIGHT" -> 0
    [] m = "SOFT_LEFT" -> np_radians(150)
    [] m = "SOFT_RIGHT" -> 0 - np_radians(150)
    [] m = "HARD_LEFT" -> np_radians(450)
    [] m = "HARD_RIGHT" -> 0 - np_radians(450)
    [] m = "REVERSE" -> np_radians(1800)
    [] m = "REVERSE_LEFT" -> np_radians(300)
    [] m = "REVERSE_RIGHT" -> 0 - np_radians(300)
    [] m = "STOP" -> 0

\* ------------------------------------------------------------------------
\* PhysicsEngine
\* ------------------------------------------------------------------------
\* variant: a new GameState that refers to the ships of the old one
_copy_state_shallow(h, st) ==
  [h |-> Append(h, h[st]), ref |-> Len(h) + 1]

\* variant: ships copied, the torpedo and zone objects carried over
_copy_state_shared_lists(h, st) ==
  LET s == h[st]
      n == Len(h)
      gs == GameState(s.turn, n + 1, n + 2, s.torpedoes, s.blast_zones)
  IN [h |-> h \o << h[s.ship_a], h[s.ship_b], gs >>, ref |-> n + 3]

_copy_state(h, st) ==
  LET s == h[st]
      n == Len(h)
      nt == Len(s.torpedoes)
      nz == Len(s.blast_zones)
      copies == << h[s.ship_a], h[s.ship_b] >>
                \o [i \in 1..nt |-> h[s.torpedoes[i]]]
                \o [i \in 1..nz |-> h[s.blast_zones[i]]]
      gs == GameState(s.turn, n + 1, n + 2,
                      [i \in 1..nt |-> n + 2 + i],
                      [i \in 1..nz |-> n + 2 + nt + i])
  IN [h |-> h \o copies \o << gs >>, ref |-> n + 2 + nt + nz + 1]

_get_movement_ae_rate(movement) ==
  CASE movement = "FORWARD" -> forward_ae_per_second
    [] movement = "FORWARD_LEFT" -> diagonal_ae_per_second
    [] movement = "FORWARD_RIGHT" -> diagonal_ae_per_second
    [] movement = "LEFT" -> perpendicular_ae_per_second
    [] movement = "RIGHT" -> perpendicular_ae_per_second
    [] movement = "BACKWARD" -> backward_ae_per_second
    [] movement = "BACKWARD_LEFT" -> backward_diagonal_ae_per_second
    [] movement = "BACKWARD_RIGHT" -> backward_diagonal_ae_per_second
    [] movement = "STOP" -> stop_ae_per_second

_get_rotation_ae_rate(rotation) ==
  CASE rotation = "NONE" -> none_ae_per_second
    [] rotation = "SOFT_LEFT" -> soft_turn_ae_per_second
    [] rotation = "SOFT_RIGHT" -> soft_turn_ae_per_second
    [] rotation = "HARD_LEFT" -> hard_turn_ae_per_second
    [] rotation = "HARD_RIGHT" -> hard_turn_ae_per_second

\* mutates the Orders object in place and returns the same reference
_validate_orders(h, ship, orders) ==
  LET movement_cost == _get_movement_ae_rate(h[orders].movement) * action_phase_duration
      rotation_cost == _get_rotation_ae_rate(h[orders].rotation) * action_phase_duration
      total_cost == movement_cost + rotation_cost
  IN [h |-> IF total_cost > h[ship].ae
            THEN [h EXCEPT ![orders].movement = "STOP", ![orders].rotation = "NONE"]
            ELSE h,
      ret |-> orders]

OwnedTorpedoes(h, st, ship_id) ==
  { i \in 1..Len(h[st].torpedoes) : h[h[st].torpedoes[i]].owner = ship_id }

\* state.torpedoes.append(new_torpedo) and the torpedo_launched event
LaunchTorpedo(h, st, ship_id, new_torpedo) ==
  [h |-> [Append(h, new_torpedo) EXCEPT ![st].torpedoes = Append(@, Len(h) + 1)],
   events |-> << Event("torpedo_launched", h[st].turn,
                       [ship |-> ship_id, torpedo_id |-> new_torpedo.id]) >>]

\* variant: the id of a new torpedo does not carry the turn number
LaunchFrom_same_id(h, st, ship_id, ship) ==
  LaunchTorpedo(h, st, ship_id,
    TorpedoState(<< ship_id, "torpedo", 0 >>,
                 h[ship].position,
                 Vec2D(np_cos(h[ship].heading) * torpedo_speed,
                       np_sin(h[ship].heading) * torpedo_speed),
                 h[ship].heading, max_ae_capacity, ship_id, TRUE, None))

\* the launch, once the cost is deducted
LaunchFrom(h, st, ship_id, ship) ==
  LaunchTorpedo(h, st, ship_id,
    TorpedoState(<< ship_id, "torpedo", h[st].turn >>,
                 h[ship].position,
                 Vec2D(np_cos(h[ship].heading) * torpedo_speed,
                       np_sin(h[ship].heading) * torpedo_speed),
                 h[ship].heading, max_ae_capacity, ship_id, TRUE, None))

\* the CONFIGURE_FOCUSED and CONFIGURE_WIDE branches
Reconfigure(h, st, ship_id, ship, config) ==
  IF h[ship].phaser_config # config
  THEN [h |-> [h EXCEPT ![ship].reconfiguring_phaser = TRUE,
                        ![ship].phaser_config = config],
        events |-> << Event("phaser_reconfigured", h[st].turn,
                            [ship |-> ship_id, config |-> config]) >>]
  ELSE [h |-> h, events |-> << >>]

\* variant: the per-ship cap is not consulted
CanLaunch_uncapped(h, st, ship_id, ship) == h[ship].ae >= launch_cost_ae

\* variant: a ship already at the cap may still launch
CanLaunch_inclusive(h, st, ship_id, ship) ==
  /\ h[ship].ae >= launch_cost_ae
  /\ Cardinality(OwnedTorpedoes(h, st, ship_id)) <= max_active_per_ship

\* lines 239-244: enough energy and fewer active torpedoes than the cap
CanLaunch(h, st, ship_id, ship) ==
  /\ h[ship].ae >= launch_cost_ae
  /\ Cardinality(OwnedTorpedoes(h, st, ship_id)) < max_active_per_ship

_apply_weapon_action(h, st, ship_id, ship, weapon_action) ==
  IF weapon_action = "LAUNCH_TORPEDO" THEN
    IF CanLaunch(h, st, ship_id, ship)
    THEN LaunchFrom([h EXCEPT ![ship].ae = @ - launch_cost_ae], st, ship_id, ship)
    ELSE [h |-> h, events |-> << >>]
  ELSE IF weapon_action = "CONFIGURE_FOCUSED" THEN Reconfigure(h, st, ship_id, ship, "FOCUSED")
  ELSE IF weapon_action = "CONFIGURE_WIDE" THEN Reconfigure(h, st, ship_id, ship, "WIDE")
  ELSE [h |-> h, events |-> << >>]

str_lower(s) ==
  CASE s = "DETONATE_AFTER" -> "detonate_after"
    [] s = "HARD_LEFT" -> "hard_left"
    [] OTHER -> s

str_upper(s) ==
  CASE s = "hard_left" -> "HARD_LEFT"
    [] s = "forward" -> "FORWARD"
    [] s = "detonate_after" -> "DETONATE_AFTER"
    [] OTHER -> s

\* bool(action_str) for an Optional[str]
Truthy(a) == a # None /\ (a[1].head # "" \/ a[1].has_colon)

\* [raises, action_type, delay]; raises stands for ValueError
\* float("nan"): a delay that float() accepts and that compares false with
\* every number
NaN == 0 - 2 ^ 20

\* delay < 0.0 or delay > 15.0
OutsideRange(delay) == delay # NaN /\ (delay < 0 \/ delay > decision_interval_seconds)

_parse_torpedo_action(s) ==
  IF s.has_colon /\ str_lower(s.head) = "detonate_after" THEN
    IF ~ s.numeric
    THEN [raises |-> TRUE, action_type |-> "", delay |-> None]
    ELSE IF OutsideRange(s.value)
    THEN [raises |-> TRUE, action_type |-> "", delay |-> None]
    ELSE [raises |-> FALSE, action_type |-> "detonate_after", delay |-> Some(s.value)]
  ELSE [raises |-> FALSE,
        action_type |-> IF s.has_colon THEN "<head:tail>" ELSE s.head,
        delay |-> None]

TorpedoOrderFor(h, torpedo, oa, ob) ==
  IF h[torpedo].owner = "ship_a"
  THEN dict_get(h[oa].torpedo_orders, h[torpedo].id)
  ELSE dict_get(h[ob].torpedo_orders, h[torpedo].id)

_apply_torpedo_orders(h, st, oa, ob) ==
  LET torps == { h[st].torpedoes[i] : i \in 1..Len(h[st].torpedoes) }
      timer(t) ==
        LET action_str == TorpedoOrderFor(h, t, oa, ob) IN
        IF Truthy(action_str)
        THEN LET p == _parse_torpedo_action(action_str[1]) IN
             IF ~ p.raises /\ p.action_type = "detonate_after"
             THEN p.delay
             ELSE h[t].detonation_timer
        ELSE h[t].detonation_timer
  IN [r \in DOMAIN h |->
        IF r \in torps THEN [h[r] EXCEPT !.detonation_timer = timer(r)] ELSE h[r]]

_apply_ae_regeneration(h, ship, dt) ==
  LET regen_amount == ae_regen_per_second * dt
      ae1 == h[ship].ae + regen_amount
  IN [h EXCEPT ![ship].ae = IF ae1 < max_ae THEN ae1 ELSE max_ae]

\* max(0.0, ship.ae)
\* variant: no lower clamp
ClampOff(ae) == ae

ClampAtZero(ae) == IF ae > 0 THEN ae ELSE 0

\* variant: a rotating ship travels at half speed
ShipVelocity_slowed(o, heading) ==
  IF o.movement = "STOP" THEN Vec2D(0, 0)
  ELSE Vec2D((np_cos(heading + MOVEMENT_DIRECTION_OFFSETS(o.movement)) * ship_speed)
               \div (IF o.rotation = "NONE" THEN 1 ELSE 2),
             (np_sin(heading + MOVEMENT_DIRECTION_OFFSETS(o.movement)) * ship_speed)
               \div (IF o.rotation = "NONE" THEN 1 ELSE 2))

\* lines 330-342: the velocity for the movement direction, from the new heading
ShipVelocity(o, heading) ==
  IF o.movement = "STOP" THEN Vec2D(0, 0)
  ELSE Vec2D(np_cos(heading + MOVEMENT_DIRECTION_OFFSETS(o.movement)) * ship_speed,
             np_sin(heading + MOVEMENT_DIRECTION_OFFSETS(o.movement)) * ship_speed)

\* lines 344-355: position and the costs of the substep
ShipMove(h, ship, o, dt, heading, velocity) ==
  [h EXCEPT ![ship].heading = heading,
            ![ship].velocity = velocity,
            ![ship].position = Vec2D_add(@, Vec2D_mul(velocity, dt)),
            ![ship].ae = @ - _get_movement_ae_rate(o.movement) * dt
                           - _get_rotation_ae_rate(o.rotation) * dt]

\* lines 330-355 with the new heading
ShipTurnAndMove(h, ship, o, dt, heading) ==
  ShipMove(h, ship, o, dt, heading, ShipVelocity(o, heading))

\* variant: the cooldown is decremented in every substep and not clamped
Cool_unguarded(phaser_cooldown_remaining, dt) == phaser_cooldown_remaining - dt

\* lines 364-366: decrement while > 0.0, then max(0.0, ...)
Cool(phaser_cooldown_remaining, dt) == IF phaser_cooldown_remaining > 0 THEN (IF phaser_cooldown_remaining - dt > 0 THEN phaser_cooldown_remaining - dt ELSE 0) ELSE phaser_cooldown_remaining

\* lines 361-366: clamp of the energy, decrement of the cooldown
ShipClampAndCool(h, ship, dt) ==
  [h EXCEPT ![ship].ae = ClampAtZero(@),
            ![ship].phaser_cooldown_remaining = Cool(@, dt)]

_update_ship_physics(h, ship, orders, dt) ==
  ShipClampAndCool(
    _apply_ae_regeneration(
      ShipTurnAndMove(h, ship, h[orders], dt,
        (h[ship].heading + np_radians(ROTATION_RATES(h[orders].rotation) * dt)) % FullTurn),
      ship, dt),
    ship, dt)

\* lines 376-391: the MovementType commanded, << >> for none
TorpedoMovement(t, action_str, parsed) ==
  IF Truthy(action_str) /\ ~ t.just_launched THEN
    IF parsed.raises THEN None
    ELSE IF parsed.action_type # "detonate_after"
    THEN IF str_upper(parsed.action_type) \in MovementTypes
         THEN Some(str_upper(parsed.action_type))
         ELSE Some("STRAIGHT")
    ELSE None
  ELSE None

\* lines 393-397: the rotation of the substep
TorpedoHeading(t, movement, dt) ==
  IF ~ t.just_launched /\ movement # None
  THEN (t.heading + (movement_params(movement[1]) * dt) \div action_phase_duration)
         % FullTurn
  ELSE t.heading

\* lines 399-407: velocity, position, fuel
TorpedoMove(h, torpedo, dt, heading, velocity) ==
  [h EXCEPT ![torpedo].heading = heading,
            ![torpedo].velocity = velocity,
            ![torpedo].position = Vec2D_add(@, Vec2D_mul(velocity, dt)),
            ![torpedo].ae_remaining = @ - ae_burn_straight_per_second * dt]

TorpedoTurnAndMove(h, torpedo, dt, heading) ==
  TorpedoMove(h, torpedo, dt, heading,
              Vec2D(np_cos(heading) * torpedo_speed, np_sin(heading) * torpedo_speed))

_update_torpedo_physics(h, torpedo, action_str, dt) ==
  TorpedoTurnAndMove(h, torpedo, dt,
    TorpedoHeading(h[torpedo],
                   TorpedoMovement(h[torpedo], action_str,
                                   _parse_torpedo_action(action_str[1])),
                   dt))

RECURSIVE UpdateTorpedoes(_, _, _, _, _, _)
UpdateTorpedoes(h, st, oa, ob, dt, i) ==
  IF i > Len(h[st].torpedoes) THEN h
  ELSE LET torpedo == h[st].torpedoes[i] IN
       UpdateTorpedoes(
         _update_torpedo_physics(h, torpedo, TorpedoOrderFor(h, torpedo, oa, ob), dt),
         st, oa, ob, dt, i + 1)

\* list.remove(x): drops the first element equal (by field values) to x
RECURSIVE IndexOfEqual(_, _, _, _)
IndexOfEqual(h, list, ref, i) ==
  IF i > Len(list) THEN 0
  ELSE IF h[list[i]] = h[ref] THEN i
  ELSE IndexOfEqual(h, list, ref, i + 1)

list_remove(h, list, ref) ==
  LET k == IndexOfEqual(h, list, ref, 1) IN
  IF k = 0 THEN list
  ELSE SubSeq(list, 1, k - 1) \o SubSeq(list, k + 1, Len(list))

RECURSIVE RemoveAll(_, _, _)
RemoveAll(h, list, refs) ==
  IF refs = << >> THEN list
  ELSE RemoveAll(h, list_remove(h, list, Head(refs)), Tail(refs))

Min(a, b) == IF a < b THEN a ELSE b
Max(a, b) == IF a > b THEN a ELSE b

\* variant: the radius grows without the cap
Grow_uncapped(current_radius, dt) == current_radius + (blast_radius_units \div blast_expansion_seconds) * dt

\* lines 461-465: growth_rate = max_radius / expansion_duration, capped at max_radius
Grow(current_radius, dt) == Min(current_radius + (blast_radius_units \div blast_expansion_seconds) * dt, blast_radius_units)

\* variant: the expansion phase never ends
ExpansionOver_never(age) == FALSE

\* line 468: zone.age >= expansion_duration
ExpansionOver(age) == age >= blast_expansion_seconds

\* lines 455-492: one zone, one substep
ZoneStep(z, dt) ==
  LET aged == [z EXCEPT !.age = @ + dt] IN
  IF z.phase = "expansion" THEN
    LET max_radius == blast_radius_units
        grown == [aged EXCEPT !.current_radius = Grow(@, dt)]
    IN IF ExpansionOver(grown.age)
       THEN [grown EXCEPT !.phase = "persistence", !.current_radius = max_radius]
       ELSE grown
  ELSE IF z.phase = "persistence" THEN
    LET persistence_start == blast_expansion_seconds
        persistence_end == persistence_start + blast_persistence_seconds
    IN IF aged.age >= persistence_end
       THEN [aged EXCEPT !.phase = "dissipation"]
       ELSE aged
  ELSE IF z.phase = "dissipation" THEN
    LET dissipation_duration == blast_dissipation_seconds
        max_radius == blast_radius_units
        shrink_rate == max_radius \div dissipation_duration
    IN [aged EXCEPT !.current_radius = Max(0, @ - shrink_rate * dt)]
  ELSE aged

\* variant: no zone is ever due for removal
Dissipated_never(before, after) == FALSE

\* lines 482-492: in the dissipation branch, current_radius <= 0.0
Dissipated(before, after) == before.phase = "dissipation" /\ after.phase = "dissipation" /\ after.current_radius <= 0

_update_blast_zones(h, st, dt) ==
  LET zones == h[st].blast_zones
      zs == { zones[i] : i \in 1..Len(zones) }
      h1 == [r \in DOMAIN h |-> IF r \in zs THEN ZoneStep(h[r], dt) ELSE h[r]]
      zones_to_remove == SelectSeq(zones, LAMBDA r : Dissipated(h[r], h1[r]))
  IN [h1 EXCEPT ![st].blast_zones = RemoveAll(h1, zones, zones_to_remove)]

\* variant: every zone carries the damage of a full torpedo
NewBlastZone_full(t) ==
  BlastZone(<< t.id, "blast" >>, Vec2D(t.position.x, t.position.y),
            (max_ae_capacity * blast_damage_multiplier_x2) \div 2,
            "expansion", 0, 0, t.owner)

\* lines 523-531: the zone of a detonating torpedo
NewBlastZone(t) ==
  BlastZone(<< t.id, "blast" >>, Vec2D(t.position.x, t.position.y),
            (t.ae_remaining * blast_damage_multiplier_x2) \div 2,
            "expansion", 0, 0, t.owner)

\* variant: every detonation is reported as timed
DetonationType_timed(t) == "timed"

\* line 545
DetonationType(t) == IF t.detonation_timer # None THEN "timed" ELSE "auto"

RECURSIVE Detonate(_, _, _, _)
\* second loop of _handle_torpedo_detonations over torpedoes_to_detonate
Detonate(h, st, evs, todo) ==
  IF todo = << >> THEN [h |-> h, events |-> evs]
  ELSE
    LET torpedo == Head(todo)
        t == h[torpedo]
        blast_zone == NewBlastZone(t)
        ref == Len(h) + 1
        h1 == Append(h, blast_zone)
        h2 == [h1 EXCEPT ![st].blast_zones = Append(@, ref)]
        ev == Event("torpedo_detonated", h2[st].turn,
                    [torpedo_id |-> t.id, owner |-> t.owner,
                     position |-> << t.position.x, t.position.y >>,
                     ae_remaining |-> t.ae_remaining,
                     blast_zone_id |-> blast_zone.id,
                     detonation_type |-> DetonationType(t)])
        h3 == [h2 EXCEPT ![st].torpedoes = list_remove(h2, @, torpedo)]
    IN Detonate(h3, st, Append(evs, ev), Tail(todo))

\* variant: a timer that has just reached zero has not expired
TimerExpired_strict(timer) == timer[1] # NaN /\ timer[1] < 0

\* line 514
TimerExpired(timer) == timer[1] # NaN /\ timer[1] <= 0

_handle_torpedo_detonations(h, st, evs, dt) ==
  LET torps == h[st].torpedoes
      ts == { torps[i] : i \in 1..Len(torps) }
      h1 == [r \in DOMAIN h |->
               IF r \in ts /\ h[r].detonation_timer # None
               THEN [h[r] EXCEPT !.detonation_timer = Some(IF @[1] = NaN THEN NaN ELSE @[1] - dt)]
               ELSE h[r]]
      torpedoes_to_detonate ==
        SelectSeq(torps, LAMBDA r :
          IF h1[r].detonation_timer # None
          THEN TimerExpired(h1[r].detonation_timer)
          ELSE h1[r].ae_remaining <= 0)
  IN Detonate(h1, st, evs, torpedoes_to_detonate)

\* [h, event]: event is << >> for None
\* variant: the cooldown is not consulted
OnCooldown_never(h, attacker) == FALSE

OnCooldown(h, attacker) == h[attacker].phaser_cooldown_remaining > 0

\* variant: a target exactly at the maximum range is out of range
OutOfRange_inclusive(distance, max_range) == distance >= max_range

OutOfRange(distance, max_range) == distance > max_range

\* lines 605-607: the signed offset in (-pi, pi]
Recentre(w) == IF w > HalfTurn THEN w - FullTurn ELSE w

AngleDiff(angle_to_target, heading) == Recentre((angle_to_target - heading) % FullTurn)

Abs(x) == IF x < 0 THEN 0 - x ELSE x

\* lines 586-596: the parameters of the attacker's configuration
PhaserParams(config) ==
  IF config = "WIDE"
  THEN [arc |-> np_radians(wide_arc_degrees), max_range |-> wide_range_units,
        damage |-> wide_damage, cooldown |-> wide_cooldown_seconds]
  ELSE [arc |-> np_radians(focused_arc_degrees), max_range |-> focused_range_units,
        damage |-> focused_damage, cooldown |-> focused_cooldown_seconds]

\* lines 609-629: the arc check and the hit
PhaserArcCheck(h, attacker, target, attacker_id, target_id, turn, cfg, distance, angle_diff) ==
  IF 2 * Abs(angle_diff) <= cfg.arc
  THEN [h |-> [h EXCEPT ![target].shields = @ - cfg.damage,
                        ![attacker].phaser_cooldown_remaining = cfg.cooldown],
        event |-> Some(Event("phaser_hit", turn,
                             [attacker |-> attacker_id, target |-> target_id,
                              damage |-> cfg.damage,
                              config |-> h[attacker].phaser_config,
                              distance |-> distance]))]
  ELSE [h |-> h, event |-> None]

\* lines 598-604: the range check and the bearing
PhaserRangeCheck(h, attacker, target, attacker_id, target_id, turn, cfg, distance) ==
  IF OutOfRange(distance, cfg.max_range) THEN [h |-> h, event |-> None]
  ELSE PhaserArcCheck(h, attacker, target, attacker_id, target_id, turn, cfg, distance,
         AngleDiff(np_arctan2(h[target].position.y - h[attacker].position.y,
                              h[target].position.x - h[attacker].position.x),
                   h[attacker].heading))

_check_single_phaser_hit(h, attacker, target, attacker_id, target_id, turn) ==
  IF OnCooldown(h, attacker) THEN [h |-> h, event |-> None]
  ELSE PhaserRangeCheck(h, attacker, target, attacker_id, target_id, turn,
                        PhaserParams(h[attacker].phaser_config),
                        distance_to(h[attacker].position, h[target].position))

\* variant: the reconfiguring flag is not consulted
Reconfiguring_never(h, ship) == FALSE

Reconfiguring(h, ship) == h[ship].reconfiguring_phaser

\* one direction of _check_phaser_hits
BeamOf(h, st, attacker, target, attacker_id, target_id) ==
  IF ~ Reconfiguring(h, attacker)
  THEN _check_single_phaser_hit(h, attacker, target, attacker_id, target_id, h[st].turn)
  ELSE [h |-> h, event |-> None]

\* variant: ship_b's hit is logged first
SecondBeam_first(st, r1, r2) == [h |-> r2.h, events |-> r2.event \o r1.event]

\* ship_b's beam, on the heap ship_a's beam left
SecondBeam(st, r1, r2) == [h |-> r2.h, events |-> r1.event \o r2.event]

\* variant: a ship whose shields are gone after ship_a's beam does not fire
BeamsInOrder_survivor(st, r1) ==
  IF r1.h[r1.h[st].ship_b].shields <= 0
  THEN [h |-> r1.h, events |-> r1.event]
  ELSE SecondBeam(st, r1, BeamOf(r1.h, st, r1.h[st].ship_b, r1.h[st].ship_a, "ship_b", "ship_a"))

\* lines 562-567: ship_b's beam is evaluated whatever ship_a's beam did
BeamsInOrder(st, r1) ==
  SecondBeam(st, r1, BeamOf(r1.h, st, r1.h[st].ship_b, r1.h[st].ship_a, "ship_b", "ship_a"))

_check_phaser_hits(h, st) ==
  BeamsInOrder(st, BeamOf(h, st, h[st].ship_a, h[st].ship_b, "ship_a", "ship_b"))

\* variant: a torpedo without fuel is not dropped at the end of the turn
BurntOut_never(t) == FALSE

\* line 635: torpedo.ae_remaining <= 0
BurntOut(t) == t.ae_remaining <= 0

RECURSIVE CollisionLoop(_, _, _, _, _)
\* the for loop of _check_torpedo_collisions: [h, events, torpedoes_to_remove]
CollisionLoop(h, st, evs, rem, i) ==
  IF i > Len(h[st].torpedoes) THEN [h |-> h, events |-> evs, torpedoes_to_remove |-> rem]
  ELSE
    LET torpedo == h[st].torpedoes[i]
        t == h[torpedo]
        hits(ship) == distance_to(t.position, h[ship].position) < blast_radius_units
        damage == ((t.ae_remaining * blast_damage_multiplier_x2) \div 2) \div TrigScale
        hit(ship, ship_id) ==
          CollisionLoop([h EXCEPT ![ship].shields = @ - damage], st,
                        Append(evs, Event("torpedo_hit", h[st].turn,
                                          [torpedo_id |-> t.id, target |-> ship_id,
                                           damage |-> damage])),
                        Append(rem, torpedo), i + 1)
    IN IF BurntOut(t)
       THEN CollisionLoop(h, st, evs, Append(rem, torpedo), i + 1)
       ELSE IF t.owner # "ship_a" /\ hits(h[st].ship_a) THEN hit(h[st].ship_a, "ship_a")
       ELSE IF t.owner # "ship_b" /\ hits(h[st].ship_b) THEN hit(h[st].ship_b, "ship_b")
       ELSE CollisionLoop(h, st, evs, rem, i + 1)

_check_torpedo_collisions(h, st) ==
  LET r == CollisionLoop(h, st, << >>, << >>, 1)
      removed == { r.h[r.torpedoes_to_remove[i]] : i \in 1..Len(r.torpedoes_to_remove) }
  IN [h |-> [r.h EXCEPT ![st].torpedoes = SelectSeq(@, LAMBDA x : r.h[x] \notin removed)],
      events |-> r.events]

\* ------------------------------------------------------------------------
\* Callers of resolve_turn: starting states and orders
\* ------------------------------------------------------------------------
MaxCalls == 2

\* one arena unit, one AE and one degree on the fixed-point grids
U == 10 * TrigScale
AE == TrigScale
Deg == FullTurn \div 360

Ship(x, y, heading, shields, ae, cfg, cooldown) ==
  ShipState(Vec2D(x * U, y * U), Vec2D(0, 0), heading * Deg, shields, ae * AE,
            cfg, FALSE, cooldown)

Start(a, b) == [turn |-> 0, a |-> a, b |-> b, torpedoes |-> << >>, blast_zones |-> << >>]

\* starting states of a call sequence
Scenarios ==
  { \* MatchOrchestrator._initialize_match
    Start(Ship(100, 250, 0, 100, 100, "WIDE", 0),
          Ship(900, 250, 180, 100, 100, "WIDE", 0)),
    \* ship_b exactly at ship_a's WIDE range, ship_a exactly on the edge of
    \* ship_b's WIDE arc; ship_b's shields nearly gone
    Start(Ship(100, 100, 0, 100, 100, "WIDE", 0),
          Ship(130, 100, 135, 10, 100, "WIDE", 0)),
    \* facing each other 20 units apart; ship_a's cooldown outlasts the turn,
    \* ship_b's runs out during it
    Start(Ship(100, 250, 0, 100, 100, "WIDE", 160),
          Ship(120, 250, 180, 100, 100, "WIDE", 100)),
    \* both ships short of energy
    Start(Ship(100, 100, 0, 100, 12, "WIDE", 0),
          Ship(200, 200, 180, 100, 25, "WIDE", 0)),
    \* a ship with a negative cooldown: refused when the ship is constructed
    Start(Ship(100, 250, 0, 100, 100, "WIDE", 0 - 10),
          Ship(900, 250, 180, 100, 100, "WIDE", 0)),
    \* turn 8 of a match: ship_a's torpedo of turn 1 is nearly burnt out and a
    \* blast zone of ship_b's torpedo of turn 2 persists next to ship_a
    [turn |-> 8,
     a |-> Ship(100, 250, 0, 100, 60, "FOCUSED", 0),
     b |-> Ship(900, 250, 180, 100, 60, "WIDE", 0),
     torpedoes |-> << TorpedoState(<< "ship_a", "torpedo", 1 >>,
                                   Vec2D(580 * U, 250 * U),
                                   Vec2D(torpedo_speed * TrigScale, 0), 0,
                                   4 * AE, "ship_a", FALSE, None) >>,
     blast_zones |-> << BlastZone(<< << "ship_b", "torpedo", 2 >>, "blast" >>,
                                  Vec2D(110 * U, 250 * U), 45 * AE, "persistence",
                                  400, blast_radius_units, "ship_b") >>] }

NoCmd == None
O(movement, rotation, weapon_action) ==
  [movement |-> movement, rotation |-> rotation, weapon_action |-> weapon_action,
   tcmd |-> NoCmd]

OrdersMenuA ==
  { O("STOP", "NONE", "MAINTAIN_CONFIG"),
    O("FORWARD", "SOFT_LEFT", "MAINTAIN_CONFIG"),
    O("BACKWARD_LEFT", "HARD_LEFT", "MAINTAIN_CONFIG"),
    O("STOP", "NONE", "LAUNCH_TORPEDO"),
    O("STOP", "NONE", "CONFIGURE_FOCUSED"),
    O("LEFT", "HARD_RIGHT", "LAUNCH_TORPEDO") }

OrdersMenuB ==
  { O("STOP", "NONE", "MAINTAIN_CONFIG"),
    O("LEFT", "HARD_RIGHT", "LAUNCH_TORPEDO") }

\* orders of the repeated calls: pairs that differ in one command only
OrdersMenuR ==
  { O("LEFT", "NONE", "MAINTAIN_CONFIG"),
    O("LEFT", "HARD_LEFT", "MAINTAIN_CONFIG"),
    O("FORWARD", "HARD_LEFT", "MAINTAIN_CONFIG"),
    O("STOP", "NONE", "LAUNCH_TORPEDO"),
    O("BACKWARD_LEFT", "HARD_LEFT", "CONFIGURE_FOCUSED") }

\* the caller's view of a GameState: every object by value
View(h, st) ==
  [turn |-> h[st].turn,
   ship_a |-> h[h[st].ship_a],
   ship_b |-> h[h[st].ship_b],
   torpedoes |-> [i \in 1..Len(h[st].torpedoes) |-> h[h[st].torpedoes[i]]],
   blast_zones |-> [i \in 1..Len(h[st].blast_zones) |-> h[h[st].blast_zones[i]]]]

\* Orders(...) as a caller builds it from a menu entry for its own torpedoes
MakeOrders(h, st, o, ship_id) ==
  LET ids == { h[h[st].torpedoes[i]].id : i \in OwnedTorpedoes(h, st, ship_id) } IN
  Orders(o.movement, o.rotation, o.weapon_action,
         IF o.tcmd = None THEN << >> ELSE [id \in ids |-> o.tcmd[1]])

\* ShipState.__post_init__: TRUE when ValueError is raised
__post_init__(ship) == ship.phaser_cooldown_remaining < 0

InitFrom(sc) ==
    LET nt == Len(sc.torpedoes)
        nz == Len(sc.blast_zones)
    IN
    /\ ~ __post_init__(sc.a)
    /\ ~ __post_init__(sc.b)
    /\ heap = << sc.a, sc.b >> \o sc.torpedoes \o sc.blast_zones
              \o << GameState(sc.turn, 1, 2, [i \in 1..nt |-> 2 + i],
                              [i \in 1..nz |-> 2 + nt + i]) >>
    /\ state = 2 + nt + nz + 1
    /\ orders_a = 0
    /\ orders_b = 0
    /\ new_state = 0
    /\ valid_orders_a = 0
    /\ valid_orders_b = 0
    /\ events = << >>
    /\ substep = 0
    /\ pc = "idle"
    /\ call = None
    /\ at_eval = None
    /\ prev = None
    /\ calls = 0

Init == \E sc \in Scenarios : InitFrom(sc)

\* resolve_turn, lines 114-132: everything before the substep loop
WeaponActionB(ns, va, vb, wa) ==
  [va |-> va, vb |-> vb, wa |-> wa,
   wb |-> _apply_weapon_action(wa.h, ns, "ship_b", wa.h[ns].ship_b,
                               wa.h[vb.ret].weapon_action)]

WeaponActionA(ns, va, vb) ==
  WeaponActionB(ns, va, vb,
                _apply_weapon_action(vb.h, ns, "ship_a", vb.h[ns].ship_a,
                                     vb.h[va.ret].weapon_action))

ValidateB(ns, ob, va) ==
  WeaponActionA(ns, va, _validate_orders(va.h, va.h[ns].ship_b, ob))

ValidateA(h, ns, oa, ob) ==
  ValidateB(ns, ob, _validate_orders(h, h[ns].ship_a, oa))

BeginOnCopy(c, oa, ob) ==
  ValidateA([c.h EXCEPT ![c.ref].turn = @ + 1], c.ref, oa, ob)

BeginDone(ns, r) ==
  /\ heap' = _apply_torpedo_orders(r.wb.h, ns, r.va.ret, r.vb.ret)
  /\ new_state' = ns
  /\ valid_orders_a' = r.va.ret
  /\ valid_orders_b' = r.vb.ret
  /\ events' = r.wa.events \o r.wb.events
  /\ substep' = 0
  /\ pc' = "loop"
  /\ at_eval' = None

BeginWith(c, oa, ob) == BeginDone(c.ref, BeginOnCopy(c, oa, ob))

ResolveTurnBegin(h0, st, oa, ob) == BeginWith(_copy_state(h0, st), oa, ob)

\* the caller builds new Orders (one object for both sides when shared) and calls
CallOn(st, h0, a_ref, b_ref, shared) ==
  /\ calls < MaxCalls
  /\ orders_a' = a_ref
  /\ orders_b' = b_ref
  /\ state' = st
  /\ call' = Some([state |-> View(heap, st), orders_a |-> h0[a_ref],
                   orders_b |-> h0[b_ref], shared |-> shared, rerun |-> FALSE])
  /\ calls' = calls + 1
  /\ ResolveTurnBegin(h0, st, a_ref, b_ref)

CallWith(st, oa, ob, shared) ==
  /\ shared => oa = ob
  /\ IF shared
     THEN CallOn(st, Append(heap, MakeOrders(heap, st, oa, "ship_a")),
                 Len(heap) + 1, Len(heap) + 1, shared)
     ELSE CallOn(st, heap \o << MakeOrders(heap, st, oa, "ship_a"),
                                MakeOrders(heap, st, ob, "ship_b") >>,
                 Len(heap) + 1, Len(heap) + 2, shared)

\* a turn of a match
Call ==
  /\ pc = "idle"
  /\ \E oa \in OrdersMenuA, ob \in OrdersMenuA \cup OrdersMenuB, shared \in BOOLEAN :
       /\ shared \/ ob \in OrdersMenuB
       /\ CallWith(state, oa, ob, shared)
  /\ UNCHANGED prev

\* variant: detonations are handled before the zone lifecycles are advanced
SubstepBody_detonate_first(h, st, oa, ob, evs, dt) ==
  LET d == _handle_torpedo_detonations(
             UpdateTorpedoes(
               _update_ship_physics(_update_ship_physics(h, h[st].ship_a, oa, dt),
                                    h[st].ship_b, ob, dt),
               st, oa, ob, dt, 1),
             st, evs, dt)
  IN [h |-> _update_blast_zones(d.h, st, dt), events |-> d.events]

\* one iteration of the substep loop, lines 136-151
SubstepBody(h, st, oa, ob, evs, dt) ==
  _handle_torpedo_detonations(
    _update_blast_zones(
      UpdateTorpedoes(
        _update_ship_physics(_update_ship_physics(h, h[st].ship_a, oa, dt),
                             h[st].ship_b, ob, dt),
        st, oa, ob, dt, 1),
      st, dt),
    st, evs, dt)

SubstepDone(d) ==
  /\ heap' = d.h
  /\ events' = d.events

Substep ==
  /\ pc = "loop"
  /\ substep < substeps
  /\ SubstepDone(SubstepBody(heap, new_state, valid_orders_a, valid_orders_b, events,
                             fixed_timestep))
  /\ substep' = substep + 1
  /\ UNCHANGED << state, orders_a, orders_b, new_state, valid_orders_a,
                  valid_orders_b, pc, call, at_eval, prev, calls >>

\* variant: only the torpedoes' flags are cleared
ClearFlags_torpedoes(h, st) ==
  [r \in DOMAIN h |->
     IF r \in { h[st].torpedoes[i] : i \in 1..Len(h[st].torpedoes) }
     THEN [h[r] EXCEPT !.just_launched = FALSE]
     ELSE h[r]]

\* lines 160-164: the turn-based flags
ClearFlags(h, st) ==
  [r \in DOMAIN h |->
     IF r \in { h[st].torpedoes[i] : i \in 1..Len(h[st].torpedoes) }
     THEN [h[r] EXCEPT !.just_launched = FALSE]
     ELSE IF r = h[st].ship_a \/ r = h[st].ship_b
     THEN [h[r] EXCEPT !.reconfiguring_phaser = FALSE]
     ELSE h[r]]

ReturnDone(p, c) ==
  /\ heap' = ClearFlags(c.h, new_state)
  /\ events' = events \o p.events \o c.events

ReturnAfterBeams(p) == ReturnDone(p, _check_torpedo_collisions(p.h, new_state))

\* lines 153-166: hits, turn-based flags, return
Return ==
  /\ pc = "loop"
  /\ substep = substeps
  /\ ReturnAfterBeams(_check_phaser_hits(heap, new_state))
  /\ at_eval' = Some(View(heap, new_state))
  /\ pc' = "returned"
  /\ UNCHANGED << state, orders_a, orders_b, new_state, valid_orders_a,
                  valid_orders_b, substep, call, prev, calls >>

\* MatchOrchestrator.run_match: state = new_state
Advance ==
  /\ pc = "returned"
  /\ calls < MaxCalls
  /\ state' = new_state
  /\ pc' = "idle"
  /\ UNCHANGED << heap, orders_a, orders_b, new_state, valid_orders_a,
                  valid_orders_b, events, substep, call, at_eval, prev, calls >>

Next == Call \/ Substep \/ Return \/ Advance

Spec == Init /\ [][Next]_vars

\* ---- repeated calls on one starting state (the determinism tests) ----
Remember ==
  prev' = Some([call |-> call[1], result |-> View(heap, new_state), events |-> events,
                applied_a |-> heap[valid_orders_a], applied_b |-> heap[valid_orders_b]])

FirstCall ==
  /\ pc = "idle"
  /\ \E oa \in OrdersMenuR, shared \in BOOLEAN :
       CallWith(state, oa, IF shared THEN oa ELSE O("STOP", "NONE", "MAINTAIN_CONFIG"), shared)
  /\ UNCHANGED prev

\* resolve_turn(state, orders_a, orders_b) again, with the very same objects
CallSameObjects ==
  /\ pc = "returned"
  /\ calls < MaxCalls
  /\ call' = Some([state |-> View(heap, state), orders_a |-> heap[orders_a],
                   orders_b |-> heap[orders_b], shared |-> call[1].shared,
                   rerun |-> TRUE])
  /\ Remember
  /\ calls' = calls + 1
  /\ ResolveTurnBegin(heap, state, orders_a, orders_b)
  /\ UNCHANGED << state, orders_a, orders_b >>

\* resolve_turn on the same state object with newly built orders
CallNewOrders ==
  /\ pc = "returned"
  /\ \E oa \in OrdersMenuR, shared \in BOOLEAN :
       CallWith(state, oa, IF shared THEN oa ELSE O("STOP", "NONE", "MAINTAIN_CONFIG"), shared)
  /\ Remember

NextRerun == FirstCall \/ Substep \/ Return \/ CallSameObjects \/ CallNewOrders

SpecRerun == Init /\ [][NextRerun]_vars

\* ---- turns with torpedoes in flight and blast zones on the field ----
\* a torpedo of an earlier turn, flying along the x axis (direction 1 or -1)
Torpedo(owner, turn, x, y, direction, fuel) ==
  TorpedoState(<< owner, "torpedo", turn >>, Vec2D(x * U, y * U),
               Vec2D(direction * torpedo_speed * TrigScale, 0),
               IF direction = 1 THEN 0 ELSE HalfTurn, fuel, owner, FALSE, None)

\* the fully grown zone of an earlier detonation
Zone(owner, turn, x, y, base_damage, age) ==
  BlastZone(<< << owner, "torpedo", turn >>, "blast" >>, Vec2D(x * U, y * U),
            base_damage, "persistence", age, blast_radius_units, owner)

OrdnanceScenarios ==
  { \* no torpedo yet; ship_b is in FOCUSED mode
    [turn |-> 3,
     a |-> Ship(100, 250, 0, 100, 100, "WIDE", 0),
     b |-> Ship(900, 250, 180, 100, 100, "FOCUSED", 0),
     torpedoes |-> << >>, blast_zones |-> << >>],
    \* ship_a has its four torpedoes in flight: one about to reach ship_b,
    \* two nearly burnt out, one with fuel to spare; ship_b cannot pay a launch
    \* and its one torpedo is nearly burnt out
    [turn |-> 6,
     a |-> Ship(100, 250, 0, 100, 100, "WIDE", 0),
     b |-> Ship(900, 250, 180, 100, 15, "WIDE", 0),
     torpedoes |-> << Torpedo("ship_a", 2, 850, 250, 1, 30 * AE),
                      Torpedo("ship_a", 3, 400, 100, 1, 4 * AE),
                      Torpedo("ship_a", 4, 400, 400, -1, 30 * AE),
                      Torpedo("ship_a", 5, 300, 250, 1, 2 * AE),
                      Torpedo("ship_b", 1, 600, 400, -1, 3 * AE) >>,
     blast_zones |-> << >>],
    \* ship_a (FOCUSED) sits inside its own zone and ship_b's zone; ship_b sits
    \* inside its own zone and exactly on the edge of ship_a's
    [turn |-> 9,
     a |-> Ship(100, 250, 0, 100, 100, "FOCUSED", 0),
     b |-> Ship(120, 250, 180, 100, 100, "WIDE", 0),
     torpedoes |-> << >>,
     blast_zones |-> << Zone("ship_a", 4, 105, 250, 45 * AE, 100),
                        Zone("ship_b", 5, 110, 250, 30 * AE, 80) >>] }

\* orders that hold the ship still and give every own torpedo one command
OT(weapon_action, cmd) ==
  [movement |-> "STOP", rotation |-> "NONE", weapon_action |-> weapon_action,
   tcmd |-> Some(cmd)]

detonate_after(t) == ActionStr("detonate_after", TRUE, TRUE, t)

OrdnanceMenuA ==
  { O("STOP", "NONE", "MAINTAIN_CONFIG"),
    O("STOP", "NONE", "LAUNCH_TORPEDO"),
    O("STOP", "NONE", "RECONFIGURE_FOCUSED"),
    O("STOP", "NONE", "RECONFIGURE_WIDE"),
    OT("MAINTAIN_CONFIG", detonate_after(0)),
    OT("MAINTAIN_CONFIG", detonate_after(fixed_timestep)),
    OT("MAINTAIN_CONFIG", detonate_after(50)),
    OT("MAINTAIN_CONFIG", detonate_after(decision_interval_seconds)),
    OT("MAINTAIN_CONFIG", ActionStr("HARD_LEFT", FALSE, FALSE, 0)) }

OrdnanceMenuB ==
  { O("STOP", "NONE", "MAINTAIN_CONFIG"),
    O("STOP", "NONE", "LAUNCH_TORPEDO") }

InitOrdnance == \E sc \in OrdnanceScenarios : InitFrom(sc)

CallOrdnance ==
  /\ pc = "idle"
  /\ \E oa \in OrdnanceMenuA, ob \in OrdnanceMenuB : CallWith(state, oa, ob, FALSE)
  /\ UNCHANGED prev

NextOrdnance == CallOrdnance \/ Substep \/ Return \/ Advance

SpecOrdnance == InitOrdnance /\ [][NextOrdnance]_vars

\* ------------------------------------------------------------------------
\* Observations used by the properties
\* ------------------------------------------------------------------------
ShipIds == {"ship_a", "ship_b"}
Other(id) == IF id = "ship_a" THEN "ship_b" ELSE "ship_a"
ShipIn(v, id) == IF id = "ship_a" THEN v.ship_a ELSE v.ship_b

InCall == pc \in {"loop", "returned"}
Returned == pc = "returned"

\* the ship in the state passed in, in the state being built, and at beam evaluation
InShip(id) == ShipIn(call[1].state, id)
OutShip(id) == ShipIn(View(heap, new_state), id)
EvalShip(id) == ShipIn(at_eval[1], id)

Submitted(id) == IF id = "ship_a" THEN call[1].orders_a ELSE call[1].orders_b
Applied(id) == IF id = "ship_a" THEN heap[valid_orders_a] ELSE heap[valid_orders_b]

TurnCost(o) ==
  (_get_movement_ae_rate(o.movement) + _get_rotation_ae_rate(o.rotation))
    * decision_interval_seconds

RECURSIVE SumDamage(_, _, _)
SumDamage(evs, type, target) ==
  IF evs = << >> THEN 0
  ELSE (IF Head(evs).type = type /\ Head(evs).data.target = target
        THEN Head(evs).data.damage ELSE 0)
       + SumDamage(Tail(evs), type, target)

PhaserHitsBy(id) ==
  Cardinality({ i \in 1..Len(events) :
                  events[i].type = "phaser_hit" /\ events[i].data.attacker = id })

Launched(id) ==
  \E i \in 1..Len(events) :
    events[i].type = "torpedo_launched" /\ events[i].data.ship = id

ModeArc(cfg) == IF cfg = "WIDE" THEN wide_arc_degrees ELSE focused_arc_degrees
ModeRange(cfg) == IF cfg = "WIDE" THEN wide_range_units ELSE focused_range_units
ModeDamage(cfg) == IF cfg = "WIDE" THEN wide_damage ELSE focused_damage
ModeCooldown(cfg) == IF cfg = "WIDE" THEN wide_cooldown_seconds ELSE focused_cooldown_seconds

Range(att, tgt) == distance_to(att.position, tgt.position)
\* absolute bearing offset of tgt from att's heading
Bearing(att, tgt) ==
  LET d == Vec2D_sub(tgt.position, att.position)
      w == (np_arctan2(d.y, d.x) - att.heading) % FullTurn
  IN IF w > HalfTurn THEN FullTurn - w ELSE w
InArcAndRange(att, tgt) ==
  /\ Range(att, tgt) <= ModeRange(att.phaser_config)
  /\ 2 * Bearing(att, tgt) <= ModeArc(att.phaser_config)

Refs(h, st) ==
  {st, h[st].ship_a, h[st].ship_b}
    \cup { h[st].torpedoes[i] : i \in 1..Len(h[st].torpedoes) }
    \cup { h[st].blast_zones[i] : i \in 1..Len(h[st].blast_zones) }

\* ------------------------------------------------------------------------
\* Properties
\* ------------------------------------------------------------------------

\* C1: two calls of resolve_turn with the same state and the same orders (the
\* same objects again, or orders built anew with the same values) return the
\* same state, object by object and field by field, and the same event list.
C1_SameInputs ==
  \/ call[1].rerun
  \/ /\ prev[1].call.state = call[1].state
     /\ prev[1].call.orders_a = call[1].orders_a
     /\ prev[1].call.orders_b = call[1].orders_b
     /\ prev[1].call.shared = call[1].shared
C1_Deterministic ==
  (Returned /\ prev # None /\ C1_SameInputs)
    => /\ View(heap, new_state) = prev[1].result
       /\ events = prev[1].events

\* a repeated call with the same Orders object, which the first call had
\* rewritten, after a turn in which something moved and something was logged
C1_Witness ==
  /\ Returned /\ prev # None /\ call[1].rerun
  /\ prev[1].call.orders_a # call[1].orders_a
  /\ View(heap, new_state).ship_b # call[1].state.ship_b

\* C2: during and after resolve_turn the state object passed in, its ships,
\* torpedoes and zones have the values they had at the call, and the result is
\* made of other objects.
C2_InputUntouched ==
  InCall => /\ View(heap, state) = call[1].state
            /\ Refs(heap, new_state) \cap Refs(heap, state) = {}

\* a returned turn that started with a torpedo and a zone and ended with
\* different ships, the torpedo detonated and a second zone
C2_Witness ==
  /\ Returned
  /\ Len(call[1].state.torpedoes) = 1
  /\ Len(call[1].state.blast_zones) = 1
  /\ Len(heap[new_state].torpedoes) = 0
  /\ Len(heap[new_state].blast_zones) = 2
  /\ OutShip("ship_a") # InShip("ship_a")
  /\ View(heap, new_state).blast_zones[1] # call[1].state.blast_zones[1]

\* C3: each ship's energy in the returned state is within [0, max_ae].
C3_EnergyBounded ==
  Returned => \A id \in ShipIds : OutShip(id).ae >= 0 /\ OutShip(id).ae <= max_ae

\* a turn returned with a ship at 0 after a
\* launch whose cost left too little for the orders that had passed validation
C3_Witness ==
  /\ Returned
  /\ \E id \in ShipIds :
       /\ Launched(id)
       /\ Applied(id).movement # "STOP"
       /\ OutShip(id).ae = 0

\* C4: a ship whose requested movement + rotation costs more than its energy at
\* the start of the turn is moved with STOP/NONE in every substep (position and
\* heading unchanged, energy up by the regeneration of the turn); otherwise its
\* requested movement and rotation are the ones applied.
C4_DowngradeIffUnaffordable ==
  InCall =>
    \A id \in ShipIds :
      IF TurnCost(Submitted(id)) > InShip(id).ae
      THEN /\ Applied(id).movement = "STOP"
           /\ Applied(id).rotation = "NONE"
           /\ OutShip(id).position = InShip(id).position
           /\ OutShip(id).heading = InShip(id).heading
           /\ OutShip(id).ae = InShip(id).ae + ae_regen_per_second * substep * fixed_timestep
      ELSE /\ Applied(id).movement = Submitted(id).movement
           /\ Applied(id).rotation = Submitted(id).rotation

\* C5: validation changes neither the ship's energy nor the Orders the caller
\* passed: the caller's Orders objects keep the values they were submitted with.
C5_OrdersUntouched ==
  InCall => /\ heap[orders_a] = call[1].orders_a
            /\ heap[orders_b] = call[1].orders_b

\* C6 as stated: from the same starting state, two calls that give a ship the
\* same movement leave it with the same speed whatever the rotation, and two
\* calls that give it the same rotation turn it by the same angle whatever the
\* movement.
PrevShip(id) == ShipIn(prev[1].result, id)
PrevSubmitted(id) == IF id = "ship_a" THEN prev[1].call.orders_a ELSE prev[1].call.orders_b
PrevApplied(id) == IF id = "ship_a" THEN prev[1].applied_a ELSE prev[1].applied_b
Speed(v) == np_sqrt(v.x * v.x + v.y * v.y)
\* the sine table rounds each velocity component to a unit of 1e-4
SpeedTolerance == 2 * base_speed_units_per_second
SameSpeed(v, w) ==
  Speed(v) - Speed(w) <= SpeedTolerance /\ Speed(w) - Speed(v) <= SpeedTolerance
HeadingDelta(before, after) == (after.heading - before.heading) % FullTurn
SameStart == Returned /\ prev # None /\ prev[1].call.state = call[1].state
C6_Independence ==
  SameStart =>
    \A id \in ShipIds :
      /\ PrevSubmitted(id).movement = Submitted(id).movement
           => SameSpeed(PrevShip(id).velocity, OutShip(id).velocity)
      /\ PrevSubmitted(id).rotation = Submitted(id).rotation
           => HeadingDelta(InShip(id), PrevShip(id)) = HeadingDelta(InShip(id), OutShip(id))

\* C6 amended: the same, for a ship whose orders passed validation unchanged in
\* both calls.
Kept(submitted, applied) ==
  submitted.movement = applied.movement /\ submitted.rotation = applied.rotation
C6_IndependenceWhenApplied ==
  SameStart =>
    \A id \in ShipIds :
      (Kept(PrevSubmitted(id), PrevApplied(id)) /\ Kept(Submitted(id), Applied(id))) =>
        /\ PrevSubmitted(id).movement = Submitted(id).movement
             => SameSpeed(PrevShip(id).velocity, OutShip(id).velocity)
        /\ PrevSubmitted(id).rotation = Submitted(id).rotation
             => HeadingDelta(InShip(id), PrevShip(id)) = HeadingDelta(InShip(id), OutShip(id))

\* two calls from one state in which ship_a kept its orders: the same movement
\* with another rotation gave another velocity of the same magnitude
C6_Witness ==
  /\ SameStart
  /\ Kept(PrevSubmitted("ship_a"), PrevApplied("ship_a"))
  /\ Kept(Submitted("ship_a"), Applied("ship_a"))
  /\ Submitted("ship_a").movement = PrevSubmitted("ship_a").movement
  /\ Submitted("ship_a").movement # "STOP"
  /\ Submitted("ship_a").rotation # PrevSubmitted("ship_a").rotation
  /\ OutShip("ship_a").velocity # PrevShip("ship_a").velocity
  /\ OutShip("ship_a").heading # PrevShip("ship_a").heading

\* C7: shields are >= 0 in every returned state.
C7_ShieldsNonNegative ==
  Returned => \A id \in ShipIds : OutShip(id).shields >= 0

\* C8: a ship whose cooldown is > 0 when beams are evaluated logs no phaser_hit
\* that turn, keeps its cooldown, and its target loses no shields to a beam.
C8_CooldownGating ==
  Returned =>
    \A id \in ShipIds :
      EvalShip(id).phaser_cooldown_remaining > 0 =>
        /\ PhaserHitsBy(id) = 0
        /\ OutShip(id).phaser_cooldown_remaining = EvalShip(id).phaser_cooldown_remaining
        /\ OutShip(Other(id)).shields
             = EvalShip(Other(id)).shields - SumDamage(events, "torpedo_hit", Other(id))

\* ship_a still cooling down with ship_b in arc and range, while ship_b, whose
\* cooldown ran out during the turn, hits
C8_Witness ==
  /\ Returned
  /\ EvalShip("ship_a").phaser_cooldown_remaining > 0
  /\ ~ EvalShip("ship_a").reconfiguring_phaser
  /\ InArcAndRange(EvalShip("ship_a"), EvalShip("ship_b"))
  /\ InShip("ship_b").phaser_cooldown_remaining > 0
  /\ PhaserHitsBy("ship_b") = 1

\* C9: for a ship that is not reconfiguring and has cooldown 0 at beam
\* evaluation: if the other ship is within the mode's range and half arc (both
\* inclusive, positions after the substeps), the target loses exactly the
\* mode's damage, the attacker's cooldown becomes the mode's cooldown and one
\* phaser_hit is logged; otherwise the beam changes no shields and no cooldown.
C9_BeamRule ==
  Returned =>
    \A id \in ShipIds :
      LET att == EvalShip(id)
          tgt == EvalShip(Other(id))
          other_damage == SumDamage(events, "torpedo_hit", Other(id))
      IN (~ att.reconfiguring_phaser /\ att.phaser_cooldown_remaining = 0) =>
           IF InArcAndRange(att, tgt)
           THEN /\ PhaserHitsBy(id) = 1
                /\ OutShip(Other(id)).shields
                     = tgt.shields - ModeDamage(att.phaser_config) - other_damage
                /\ OutShip(id).phaser_cooldown_remaining = ModeCooldown(att.phaser_config)
           ELSE /\ PhaserHitsBy(id) = 0
                /\ OutShip(Other(id)).shields = tgt.shields - other_damage
                /\ OutShip(id).phaser_cooldown_remaining = 0

\* both bounds met exactly: ship_a hits at the full WIDE range, ship_b hits
\* with ship_a on the edge of its arc
C9_Witness ==
  /\ Returned
  /\ Range(EvalShip("ship_a"), EvalShip("ship_b")) = wide_range_units
  /\ 2 * Bearing(EvalShip("ship_b"), EvalShip("ship_a")) = wide_arc_degrees
  /\ PhaserHitsBy("ship_a") = 1
  /\ PhaserHitsBy("ship_b") = 1

\* C10: in a turn in which a ship's weapon mode is switched, the ship is
\* reconfiguring during that turn and logs no phaser_hit in it.
C10_ReconfigureSuppressesFire ==
  InCall =>
    \A id \in ShipIds :
      OutShip(id).phaser_config # InShip(id).phaser_config =>
        /\ pc = "loop" => OutShip(id).reconfiguring_phaser
        /\ PhaserHitsBy(id) = 0

\* ship_a switched mode with cooldown 0 and ship_b in arc and range, and logged
\* nothing, while ship_b hit
C10_Witness ==
  /\ Returned
  /\ OutShip("ship_a").phaser_config # InShip("ship_a").phaser_config
  /\ EvalShip("ship_a").phaser_cooldown_remaining = 0
  /\ InArcAndRange(EvalShip("ship_a"), EvalShip("ship_b"))
  /\ PhaserHitsBy("ship_a") = 0
  /\ PhaserHitsBy("ship_b") = 1

\* ------------------------------------------------------------------------
\* Properties of weapon actions, torpedoes and blast zones (SpecOrdnance)
\* ------------------------------------------------------------------------
RequestedMode(weapon_action) ==
  CASE weapon_action = "RECONFIGURE_WIDE" -> "WIDE"
    [] weapon_action = "RECONFIGURE_FOCUSED" -> "FOCUSED"
    [] OTHER -> ""

Reconfigured(id) ==
  \E i \in 1..Len(events) :
    events[i].type = "phaser_reconfigured" /\ events[i].data.ship = id

\* C11: a ship that submits RECONFIGURE_WIDE or RECONFIGURE_FOCUSED while in
\* the other mode is in the requested mode from the start of that turn's
\* substeps on, and the turn's event list has a phaser_reconfigured event for it.
C11_ReconfigureSwitchesMode ==
  InCall =>
    \A id \in ShipIds :
      (/\ RequestedMode(Submitted(id).weapon_action) # ""
       /\ RequestedMode(Submitted(id).weapon_action) # InShip(id).phaser_config)
      => /\ OutShip(id).phaser_config = RequestedMode(Submitted(id).weapon_action)
         /\ Reconfigured(id)

\* the torpedoes of a ship in a view, in list order
Owned(v, id) == SelectSeq(v.torpedoes, LAMBDA t : t.owner = id)

LaunchEvents(id) ==
  Cardinality({ i \in 1..Len(events) :
                  events[i].type = "torpedo_launched" /\ events[i].data.ship = id })

\* the launch condition on the state passed in
Affordable(id) ==
  /\ InShip(id).ae >= launch_cost_ae
  /\ Len(Owned(call[1].state, id)) < max_active_per_ship

AfterWeaponActions == pc = "loop" /\ substep = 0

\* C12: for a ship that submits LAUNCH_TORPEDO: if its energy is at least the
\* launch cost and it owns fewer torpedoes than the cap, then once the weapon
\* actions are applied its torpedo list is the old one plus exactly one torpedo
\* (at the ship's position and heading, fuel = capacity, owned by the ship,
\* just_launched), its energy is lower by the launch cost, and the turn has
\* exactly one torpedo_launched event of the ship; otherwise its torpedoes and
\* the ship itself are as passed in and the turn has no such event.
C12_LaunchIffAffordable ==
  InCall =>
    \A id \in ShipIds :
      Submitted(id).weapon_action = "LAUNCH_TORPEDO" =>
        LET before == Owned(call[1].state, id)
            after == Owned(View(heap, new_state), id)
        IN IF Affordable(id)
           THEN /\ LaunchEvents(id) = 1
                /\ AfterWeaponActions =>
                     /\ Len(after) = Len(before) + 1
                     /\ SubSeq(after, 1, Len(before)) = before
                     /\ after[Len(after)].position = InShip(id).position
                     /\ after[Len(after)].heading = InShip(id).heading
                     /\ after[Len(after)].ae_remaining = max_ae_capacity
                     /\ after[Len(after)].owner = id
                     /\ after[Len(after)].just_launched
                     /\ OutShip(id).ae = InShip(id).ae - launch_cost_ae
           ELSE /\ LaunchEvents(id) = 0
                /\ AfterWeaponActions =>
                     /\ after = before
                     /\ OutShip(id) = InShip(id)

\* ship_a, with fewer than four torpedoes left, has just launched one while
\* ship_b, short of energy, was refused in the same turn
C12_Witness ==
  /\ AfterWeaponActions
  /\ Submitted("ship_a").weapon_action = "LAUNCH_TORPEDO"
  /\ Submitted("ship_b").weapon_action = "LAUNCH_TORPEDO"
  /\ Len(Owned(call[1].state, "ship_a")) \in 1..(max_active_per_ship - 1)
  /\ LaunchEvents("ship_a") = 1
  /\ Len(Owned(View(heap, new_state), "ship_a")) = Len(Owned(call[1].state, "ship_a")) + 1
  /\ InShip("ship_b").ae < launch_cost_ae
  /\ LaunchEvents("ship_b") = 0


ZonesOf(v, torpedo_id) ==
  { j \in 1..Len(v.blast_zones) : v.blast_zones[j].id = << torpedo_id, "blast" >> }

InFlight(v, torpedo_id) == \E j \in 1..Len(v.torpedoes) : v.torpedoes[j].id = torpedo_id

\* C13: a torpedo of the state passed in that is absent from the state
\* returned has left exactly one blast zone of its own in the returned state,
\* created during the turn.
C13_DestroyedLeavesZone ==
  Returned =>
    \A i \in 1..Len(call[1].state.torpedoes) :
      LET t == call[1].state.torpedoes[i] IN
      ~ InFlight(View(heap, new_state), t.id) =>
        /\ ZonesOf(call[1].state, t.id) = {}
        /\ Cardinality(ZonesOf(View(heap, new_state), t.id)) = 1

\* C14: at the end of every substep no torpedo with fuel <= 0 is left in
\* flight, whether or not it carries a detonation timer: it was removed in that
\* substep and its blast zone is on the field.
C14_FuelExhaustionDetonates ==
  (pc = "loop" /\ substep >= 1) =>
    /\ \A j \in 1..Len(View(heap, new_state).torpedoes) :
         View(heap, new_state).torpedoes[j].ae_remaining > 0
    /\ \A i \in 1..Len(call[1].state.torpedoes) :
         LET t == call[1].state.torpedoes[i] IN
         t.ae_remaining - substep * ae_burn_straight_per_second * fixed_timestep <= 0
           => Cardinality(ZonesOf(View(heap, new_state), t.id)) = 1

\* the command submitted for a torpedo of the state passed in, << >> for none
Command(t) == dict_get(Submitted(t.owner).torpedo_orders, t.id)

ValidDelay(c) ==
  /\ c # None
  /\ c[1].has_colon /\ c[1].head = "detonate_after" /\ c[1].numeric
  /\ c[1].value >= 0 /\ c[1].value <= decision_interval_seconds

Turning(c) == c # None /\ ~ c[1].has_colon /\ c[1].head \in MovementTypes

TimerOf(v, torpedo_id) ==
  { v.torpedoes[j].detonation_timer : j \in { k \in 1..Len(v.torpedoes) : v.torpedoes[k].id = torpedo_id } }

\* C15: for a torpedo given a valid detonate_after:T command, the timer reads T
\* when the substeps start and T minus the elapsed time after every substep it
\* survives; it is in flight up to the first substep whose end finds the timer
\* <= 0 (the first substep for T = 0 and for T equal to one substep) and gone,
\* with its blast zone on the field, from that substep on. A torpedo given a
\* turning command keeps the timer it had.
C15_TimerCountdown ==
  pc = "loop" =>
    \A i \in 1..Len(call[1].state.torpedoes) :
      LET t == call[1].state.torpedoes[i]
          c == Command(t)
      IN /\ ValidDelay(c) =>
              IF substep * fixed_timestep < Max(fixed_timestep, c[1].value)
              THEN TimerOf(View(heap, new_state), t.id)
                     = { Some(c[1].value - substep * fixed_timestep) }
              ELSE /\ ~ InFlight(View(heap, new_state), t.id)
                   /\ Cardinality(ZonesOf(View(heap, new_state), t.id)) = 1
         /\ Turning(c) =>
              (InFlight(View(heap, new_state), t.id)
                 => TimerOf(View(heap, new_state), t.id) = { t.detonation_timer })

\* a torpedo with fuel to spare, ordered to detonate after 5 s, is gone at the
\* end of substep 50 and its zone has just been created
C15_Witness ==
  /\ pc = "loop"
  /\ substep = 50
  /\ \E i \in 1..Len(call[1].state.torpedoes) :
       LET t == call[1].state.torpedoes[i] IN
       /\ ValidDelay(Command(t))
       /\ Command(t)[1].value = 50
       /\ t.ae_remaining > 50 * ae_burn_straight_per_second
       /\ ~ InFlight(View(heap, new_state), t.id)
       /\ \E j \in ZonesOf(View(heap, new_state), t.id) :
            View(heap, new_state).blast_zones[j].age = 0

\* the objects a list of the state being built refers to
TorpedoRefs(h) == { h[new_state].torpedoes[i] : i \in 1..Len(h[new_state].torpedoes) }
ZoneRefs(h) == { h[new_state].blast_zones[i] : i \in 1..Len(h[new_state].blast_zones) }

SubstepTaken == pc = "loop" /\ pc' = "loop" /\ substep' = substep + 1

\* C16: every zone that a substep adds to the state belongs to one torpedo that
\* the substep removed, and is created at that torpedo's position of the
\* substep, with base_damage = the torpedo's remaining fuel x 1.5, phase
\* expansion, age 0, radius 0 and the torpedo's owner.
C16_ZoneAtCreation ==
  [][SubstepTaken =>
       \A z \in ZoneRefs(heap') \ ZoneRefs(heap) :
         \E r \in TorpedoRefs(heap) \ TorpedoRefs(heap') :
           /\ heap'[z].id = << heap'[r].id, "blast" >>
           /\ heap'[z].position = heap'[r].position
           /\ 2 * heap'[z].base_damage = heap'[r].ae_remaining * blast_damage_multiplier_x2
           /\ heap'[z].phase = "expansion"
           /\ heap'[z].age = 0
           /\ heap'[z].current_radius = 0
           /\ heap'[z].owner = heap'[r].owner]_vars

\* a torpedo ordered to detonate after 5 s, with fuel left and away from where
\* it started, has just been replaced by its zone
C16_Witness ==
  /\ pc = "loop"
  /\ substep = 50
  /\ \E z \in ZoneRefs(heap), i \in 1..Len(call[1].state.torpedoes) :
       /\ heap[z].id = << call[1].state.torpedoes[i].id, "blast" >>
       /\ heap[z].age = 0
       /\ heap[z].base_damage > 0
       /\ heap[z].position # call[1].state.torpedoes[i].position

DetonationEvents(evs, torpedo_id) ==
  { k \in 1..Len(evs) :
      evs[k].type = "torpedo_detonated" /\ evs[k].data.torpedo_id = torpedo_id }

\* C17: a substep appends one event per torpedo it removes and nothing else:
\* a torpedo_detonated event with the torpedo's id, tagged timed exactly when
\* the torpedo's timer is set and has reached <= 0, and auto exactly when the
\* torpedo has no timer and its fuel is <= 0; the turn's event list never holds
\* two torpedo_detonated events of one torpedo.
C17_OneEventPerDetonation ==
  [][SubstepTaken =>
       /\ Len(events') = Len(events) + Cardinality(TorpedoRefs(heap) \ TorpedoRefs(heap'))
       /\ SubSeq(events', 1, Len(events)) = events
       /\ \A r \in TorpedoRefs(heap) \ TorpedoRefs(heap') :
            /\ Cardinality(DetonationEvents(events', heap[r].id)) = 1
            /\ \A k \in DetonationEvents(events', heap[r].id) :
                 /\ k > Len(events)
                 /\ events'[k].data.detonation_type = "timed"
                      <=> (heap'[r].detonation_timer # None
                           /\ heap'[r].detonation_timer[1] <= 0)
                 /\ events'[k].data.detonation_type = "auto"
                      <=> (heap'[r].detonation_timer = None
                           /\ heap'[r].ae_remaining <= 0)
       /\ \A k1, k2 \in 1..Len(events') :
            (/\ events'[k1].type = "torpedo_detonated"
             /\ events'[k2].type = "torpedo_detonated"
             /\ events'[k1].data.torpedo_id = events'[k2].data.torpedo_id) => k1 = k2]_vars

\* one turn has logged the timed detonation of a torpedo ordered to detonate
\* and the automatic detonation of a torpedo that burnt out with no timer
C17_Witness ==
  /\ pc = "loop"
  /\ \E i, j \in 1..Len(call[1].state.torpedoes) :
       LET t == call[1].state.torpedoes[i]
           u == call[1].state.torpedoes[j]
       IN /\ ValidDelay(Command(t))
          /\ \E k \in DetonationEvents(events, t.id) : events[k].data.detonation_type = "timed"
          /\ Command(u) = None
          /\ u.detonation_timer = None
          /\ \E k \in DetonationEvents(events, u.id) : events[k].data.detonation_type = "auto"

\* the zones a ship is strictly inside of
ZonesAround(h, ship) ==
  { z \in ZoneRefs(h) :
      distance_to(h[z].position, h[ship].position) < h[z].current_radius }

RECURSIVE SumBaseDamage(_, _)
SumBaseDamage(h, zs) ==
  IF zs = {} THEN 0
  ELSE LET z == CHOOSE x \in zs : TRUE IN h[z].base_damage + SumBaseDamage(h, zs \ {z})

ShipRefs == { heap[new_state].ship_a, heap[new_state].ship_b }
OwnerOf(ship) == IF ship = heap[new_state].ship_a THEN "ship_a" ELSE "ship_b"

\* shields lost in the step, on the scale of base_damage x substep duration
\* (a loss of base_damage / persistence window per second reads base_damage x dt)
ShieldLoss(ship) ==
  (heap[ship].shields - heap'[ship].shields) * AE * blast_persistence_seconds

\* C18: in every substep a ship loses, for each zone it is strictly inside of,
\* at least that zone's (base_damage / persistence window) x substep duration
\* of shields, whatever the zone's phase, and a ship that is inside no zone
\* (at a distance >= the radius of every zone, the edge included) loses none.
C18_ZoneDamagePerSubstep ==
  [][SubstepTaken =>
       \A ship \in ShipRefs :
         /\ \A z \in ZonesAround(heap', ship) :
              ShieldLoss(ship) >= heap'[z].base_damage * fixed_timestep
         /\ ZonesAround(heap', ship) = {} => ShieldLoss(ship) = 0]_vars

\* C19: in every substep the shield loss of a ship inside two or more zones
\* is the sum of the zones' (base_damage / persistence window) x substep duration.
C19_ZoneDamageStacks ==
  [][SubstepTaken =>
       \A ship \in ShipRefs :
         Cardinality(ZonesAround(heap', ship)) >= 2 =>
           ShieldLoss(ship) = SumBaseDamage(heap', ZonesAround(heap', ship)) * fixed_timestep]_vars

\* C20: in every substep a ship that is inside a zone of its own torpedo, and
\* inside no other zone, loses the zone's (base_damage / persistence window) x
\* substep duration: the rate the zone inflicts on the opposing ship.
C20_SelfDamage ==
  [][SubstepTaken =>
       \A ship \in ShipRefs :
         \A z \in ZonesAround(heap', ship) :
           (ZonesAround(heap', ship) = {z} /\ heap'[z].owner = OwnerOf(ship)) =>
             ShieldLoss(ship) = heap'[z].base_damage * fixed_timestep]_vars

\* ---------------------------------------------------------------------------
\* Blast zones over several turns of a match
\* ---------------------------------------------------------------------------

\* turns of a match that are followed
MaxZoneTurns == 6

\* a zone somewhere in its lifecycle
ZoneIn(owner, turn, x, y, phase, age, current_radius) ==
  BlastZone(<< << owner, "torpedo", turn >>, "blast" >>, Vec2D(x * U, y * U),
            30 * AE, phase, age, current_radius, owner)

ZoneScenarios ==
  { [turn |-> 1, a |-> Ship(100, 250, 0, 100, 100, "WIDE", 0),
     b |-> Ship(900, 250, 180, 100, 100, "WIDE", 0),
     torpedoes |-> << >>, blast_zones |-> << >>],
    [turn |-> 12, a |-> Ship(100, 250, 0, 100, 100, "WIDE", 0),
     b |-> [Ship(900, 250, 180, 100, 100, "WIDE", 0) EXCEPT !.reconfiguring_phaser = TRUE],
     torpedoes |-> << Torpedo("ship_a", 10, 500, 100, 1, 3000),
                      [Torpedo("ship_b", 11, 880, 400, -1, 40 * AE) EXCEPT !.just_launched = TRUE] >>,
     blast_zones |-> << ZoneIn("ship_a", 9, 300, 400, "expansion", 40, 1400),
                        ZoneIn("ship_b", 5, 400, 400, "persistence", 640, blast_radius_units),
                        ZoneIn("ship_a", 4, 500, 400, "dissipation", 660, 1200),
                        ZoneIn("ship_b", 3, 600, 400, "dissipation", 699, 20) >>] }

ZoneMenuA ==
  { O("STOP", "NONE", "MAINTAIN_CONFIG"),
    OT("LAUNCH_TORPEDO", detonate_after(0)) }

\* ship_b asks for the FOCUSED mode every turn: a switch in its first turn
ZoneOrderB == O("STOP", "NONE", "CONFIGURE_FOCUSED")

InitZones == \E sc \in ZoneScenarios : InitFrom(sc)

\* MatchOrchestrator.run_match: one more turn is resolved
CallZones ==
  /\ pc = "idle"
  /\ calls < MaxZoneTurns
  /\ \E oa \in ZoneMenuA :
       LET h0 == heap \o << MakeOrders(heap, state, oa, "ship_a"),
                            MakeOrders(heap, state, ZoneOrderB, "ship_b") >>
       IN /\ orders_a' = Len(heap) + 1
          /\ orders_b' = Len(heap) + 2
          /\ call' = Some([state |-> View(heap, state), orders_a |-> h0[Len(heap) + 1],
                           orders_b |-> h0[Len(heap) + 2], shared |-> FALSE, rerun |-> FALSE])
          /\ ResolveTurnBegin(h0, state, Len(heap) + 1, Len(heap) + 2)
  /\ calls' = calls + 1
  /\ UNCHANGED << state, prev >>

\* MatchOrchestrator.run_match: state = new_state
AdvanceZones ==
  /\ pc = "returned"
  /\ calls < MaxZoneTurns
  /\ state' = new_state
  /\ pc' = "idle"
  /\ UNCHANGED << heap, orders_a, orders_b, new_state, valid_orders_a,
                  valid_orders_b, events, substep, call, at_eval, prev, calls >>

NextZones == CallZones \/ Substep \/ Return \/ AdvanceZones

SpecZones == InitZones /\ [][NextZones]_vars

\* the game state as it stands: the caller's before a call, the engine's after
Current == IF pc = "idle" THEN state ELSE new_state

\* the zones of the game state, by value
ZonesNow == LET v == View(heap, Current) IN { v.blast_zones[i] : i \in 1..Len(v.blast_zones) }
ZonesNext == LET v == View(heap', Current') IN { v.blast_zones[i] : i \in 1..Len(v.blast_zones) }

\* every zone object ever made in this run, live or not
ZoneObjects(h) == { r \in DOMAIN h : "current_radius" \in DOMAIN h[r] }

PhaseRank(phase) == CASE phase = "expansion" -> 1 [] phase = "persistence" -> 2 [] phase = "dissipation" -> 3

\* the phase the age thresholds call for after a substep
PhaseDue(z, age) ==
  CASE z.phase = "expansion" ->
         IF age >= blast_expansion_seconds THEN "persistence" ELSE "expansion"
    [] z.phase = "persistence" ->
         IF age >= blast_expansion_seconds + blast_persistence_seconds
         THEN "dissipation" ELSE "persistence"
    [] z.phase = "dissipation" -> "dissipation"

\* C21: a zone's phase only ever moves EXPANDING -> PERSISTING -> DISSIPATING,
\* one stage at a time and exactly when its age reaches 5.0 s and 65.0 s; a
\* zone leaves the collection only from DISSIPATING, and an id that has left
\* never comes back
C21_PhaseOrder ==
  [][ /\ \A z \in ZonesNow : \A y \in ZonesNext :
           y.id = z.id =>
             /\ PhaseRank(y.phase) \in { PhaseRank(z.phase), PhaseRank(z.phase) + 1 }
             /\ SubstepTaken => y.age = z.age + fixed_timestep /\ y.phase = PhaseDue(z, y.age)
             /\ ~ SubstepTaken => y = z
      /\ \A z \in ZonesNow :
           (\A y \in ZonesNext : y.id # z.id) => SubstepTaken /\ z.phase = "dissipation"
      /\ \A y \in ZonesNext :
           (\A z \in ZonesNow : z.id # y.id) =>
             /\ SubstepTaken
             /\ y.phase = "expansion" /\ y.age = 0
             /\ \A r \in ZoneObjects(heap) : heap[r].id # y.id ]_vars

\* a zone made by a detonation of this run has gone through all three phases
\* and has left the collection
C21_Witness ==
  /\ pc = "loop"
  /\ \E r \in ZoneObjects(heap) :
       /\ heap[r].id = << << "ship_a", "torpedo", 10 >>, "blast" >>
       /\ heap[r].phase = "dissipation"
       /\ \A z \in ZonesNow : z.id # heap[r].id

\* C22: in every state of a match every zone's radius lies in [0, max radius],
\* and a zone in the PERSISTING phase has exactly the maximum radius
C22_RadiusBounds ==
  \A z \in ZonesNow :
    /\ 0 <= z.current_radius
    /\ z.current_radius <= blast_radius_units
    /\ z.phase = "persistence" => z.current_radius = blast_radius_units

\* the zone that started the run close to the cap has reached the PERSISTING
\* phase, and a zone made by a detonation of this run is still growing
C22_Witness ==
  /\ pc = "loop"
  /\ \E z \in ZonesNow :
       /\ z.id = << << "ship_a", "torpedo", 9 >>, "blast" >>
       /\ z.phase = "persistence"
       /\ z.age = blast_expansion_seconds
  /\ \E z \in ZonesNow :
       /\ z.id = << << "ship_a", "torpedo", 10 >>, "blast" >>
       /\ z.phase = "expansion"
       /\ z.current_radius > 0

\* expansion + persistence + dissipation
Lifetime == blast_expansion_seconds + blast_persistence_seconds + blast_dissipation_seconds

\* C23: no zone outlives its lifetime: a zone in the collection is at most
\* 70.0 s old, it leaves the collection only in a substep, in DISSIPATING, with
\* radius 0 and an age of 70.0 s (within one substep), and no other step of a
\* match, in this turn or a later one, drops or adds a zone
C23_ZoneRemoved ==
  [][ /\ \A z \in ZonesNext : z.age <= Lifetime
      /\ SubstepTaken =>
           \A r \in ZoneRefs(heap) \ ZoneRefs(heap') :
             /\ heap'[r].phase = "dissipation"
             /\ heap'[r].current_radius = 0
             /\ heap[r].current_radius > 0
             /\ heap'[r].age >= Lifetime
             /\ heap'[r].age <= Lifetime + fixed_timestep
      /\ ~ SubstepTaken => ZonesNext = ZonesNow ]_vars

\* the zone of a torpedo that detonated in this run has been removed at
\* the age of 70.0 s, turns after the detonation
C23_Witness ==
  /\ pc = "loop"
  /\ calls >= 5
  /\ \E r \in ZoneObjects(heap) :
       /\ heap[r].id = << << "ship_a", "torpedo", 10 >>, "blast" >>
       /\ heap[r].age = Lifetime
       /\ heap[r].current_radius = 0
       /\ \A z \in ZonesNow : z.id # heap[r].id

\* ---------------------------------------------------------------------------
\* Torpedo commands that do not parse
\* ---------------------------------------------------------------------------

\* 'detonate_after:abc', 'detonate_after:-1.0', 'detonate_after:16.0',
\* 'detonate_after:nan', no command at all, and a command that parses
CommandMenuA ==
  { O("STOP", "NONE", "MAINTAIN_CONFIG"),
    OT("MAINTAIN_CONFIG", ActionStr("detonate_after", TRUE, FALSE, 0)),
    OT("MAINTAIN_CONFIG", detonate_after(0 - 10)),
    OT("MAINTAIN_CONFIG", detonate_after(decision_interval_seconds + 10)),
    OT("MAINTAIN_CONFIG", detonate_after(NaN)),
    OT("MAINTAIN_CONFIG", detonate_after(50)) }

InitCommands == \E sc \in { s \in OrdnanceScenarios : s.torpedoes # << >> } : InitFrom(sc)

CallCommands ==
  /\ pc = "idle"
  /\ \E oa \in CommandMenuA : CallWith(state, oa, O("STOP", "NONE", "MAINTAIN_CONFIG"), FALSE)
  /\ UNCHANGED prev

NextCommands == CallCommands \/ Substep \/ Return \/ Advance

SpecCommands == InitCommands /\ [][NextCommands]_vars

\* a detonate_after command whose delay does not parse or is not in [0, 15]
Malformed(c) ==
  /\ c # None
  /\ c[1].has_colon /\ str_lower(c[1].head) = "detonate_after"
  /\ ~ ValidDelay(c)

\* the torpedo of the state passed in, as the substeps leave it when it is
\* given no command and carries no timer: heading held, no timer, in flight
\* while it has fuel and replaced by its zone in the substep the fuel runs out
AsWithoutCommand(t) ==
  IF t.ae_remaining - substep * fixed_timestep * ae_burn_straight_per_second > 0 \/ substep = 0
  THEN /\ InFlight(View(heap, new_state), t.id)
       /\ TimerOf(View(heap, new_state), t.id) = { None }
       /\ \A j \in 1..Len(View(heap, new_state).torpedoes) :
            View(heap, new_state).torpedoes[j].id = t.id
              => View(heap, new_state).torpedoes[j].heading = t.heading
  ELSE /\ ~ InFlight(View(heap, new_state), t.id)
       /\ Cardinality(ZonesOf(View(heap, new_state), t.id)) = 1

\* C24: throughout the substeps of a turn, a torpedo without a timer that was
\* sent a malformed detonate_after command (delay unparseable or not in
\* [0, 15]) is in the state a torpedo without any command would be in: no timer
\* set, heading held, detonation when its fuel runs out
C24_MalformedIsAbsent ==
  pc = "loop" =>
    \A i \in 1..Len(call[1].state.torpedoes) :
      LET t == call[1].state.torpedoes[i] IN
        Malformed(Command(t)) /\ t.detonation_timer = None => AsWithoutCommand(t)

\* ---------------------------------------------------------------------------
\* The event log of a turn
\* ---------------------------------------------------------------------------

\* the stage of resolve_turn that logs an event: weapon actions, substeps,
\* phaser hits, torpedo collisions
EventRank(e) ==
  CASE e.type \in { "torpedo_launched", "phaser_reconfigured" } -> 1
    [] e.type = "torpedo_detonated" -> 2
    [] e.type = "phaser_hit" -> 3
    [] OTHER -> 4

\* the ship a weapon-action or phaser-hit event belongs to
EventSide(e) ==
  CASE EventRank(e) = 1 -> e.data.ship
    [] EventRank(e) = 3 -> e.data.attacker
    [] OTHER -> ""

InFixedOrder(evs) ==
  \A i, j \in 1..Len(evs) :
    i < j =>
      /\ EventRank(evs[i]) <= EventRank(evs[j])
      /\ EventRank(evs[i]) = EventRank(evs[j])
           => ~ (EventSide(evs[i]) = "ship_b" /\ EventSide(evs[j]) = "ship_a")

\* the events a step has added to the log
Appended == SubSeq(events', Len(events) + 1, Len(events'))

\* C25: the event log of a turn is always ordered weapon-action events (ship_a's
\* before ship_b's), then detonations, then phaser hits (ship_a's before
\* ship_b's); the log only grows while the turn is resolved, a substep adds
\* nothing but the detonations of that substep, and the phaser hits are added
\* after the last substep
C25_EventOrder ==
  [][ /\ InFixedOrder(events')
      /\ pc = "loop" =>
           /\ Len(events') >= Len(events)
           /\ SubSeq(events', 1, Len(events)) = events
      /\ SubstepTaken =>
           \A k \in 1..Len(Appended) : Appended[k].type = "torpedo_detonated"
      /\ pc = "loop" /\ pc' = "returned" =>
           \A k \in 1..Len(Appended) : EventRank(Appended[k]) >= 3 ]_vars

\* a returned log with a weapon-action event, a detonation and a phaser hit
\* of each ship, in that order
C25_Witness ==
  /\ pc = "returned"
  /\ \E i, j, k, l \in 1..Len(events) :
       /\ i < j /\ j < k /\ k < l
       /\ EventRank(events[i]) = 1
       /\ EventRank(events[j]) = 2
       /\ events[k].type = "phaser_hit" /\ events[k].data.attacker = "ship_a"
       /\ events[l].type = "phaser_hit" /\ events[l].data.attacker = "ship_b"

\* ---------------------------------------------------------------------------
\* Turn-based flags
\* ---------------------------------------------------------------------------

\* C26: in every state resolve_turn returns, reconfiguring_phaser is false for
\* both ships and just_launched is false for every torpedo of the state
C26_FlagsCleared ==
  pc = "returned" =>
    /\ ~ View(heap, new_state).ship_a.reconfiguring_phaser
    /\ ~ View(heap, new_state).ship_b.reconfiguring_phaser
    /\ \A i \in 1..Len(View(heap, new_state).torpedoes) :
         ~ View(heap, new_state).torpedoes[i].just_launched

\* a returned state of a call whose input had ship_b's flag and a torpedo's
\* flag set, in which that torpedo is still in flight, ship_a has launched
\* another one and ship_b has switched mode
C26_Witness ==
  /\ pc = "returned"
  /\ call[1].state.ship_b.reconfiguring_phaser
  /\ \E i \in 1..Len(call[1].state.torpedoes) :
       /\ call[1].state.torpedoes[i].just_launched
       /\ InFlight(View(heap, new_state), call[1].state.torpedoes[i].id)
  /\ Launched("ship_a")
  /\ Reconfigured("ship_b")

\* ---------------------------------------------------------------------------
\* The heading wrap in floating point
\* ---------------------------------------------------------------------------

\* turns of rotation that are followed
MaxHeadingTurns == 2

\* a heading is kept here in quarters of 0.1 degree: the value the exact
\* arithmetic gives is a multiple of Grain, and a value next to such a
\* multiple stands for a double that differs from it by rounding error
Grain == 4

\* distance of a value from the exact grid
ErrorOf(v) == ((v + Grain \div 2) % Grain) - Grain \div 2

\* the rounding of heading + rotation in IEEE double arithmetic: none when an
\* operand is 0.0, when the operands are equal, or when they have opposite
\* signs and lie within a factor 2 of each other; otherwise the sum is
\* rounded up, down or not at all
RoundingOf(heading, rotation_per_dt) ==
  IF heading = 0 \/ rotation_per_dt = 0 \/ heading = rotation_per_dt THEN { 0 }
  ELSE IF rotation_per_dt < 0 /\ heading <= 2 * (0 - rotation_per_dt)
          /\ 0 - rotation_per_dt <= 2 * heading THEN { 0 }
  ELSE { e \in { 0 - 1, 0, 1 } : ErrorOf(heading + rotation_per_dt + e) \in { 0 - 1, 0, 1 } }

\* line 328: x % (2 * np.pi) on doubles. For x < 0 the result is fmod(x, 2*pi)
\* + 2*pi rounded to a double, which is 2*pi itself when |x| is below the
\* spacing of the doubles next to 2*pi
FloatMod(x) == IF x < 0 /\ x >= 0 - Grain \div 2 THEN FullTurn * Grain ELSE x % (FullTurn * Grain)

\* lines 325-328 for one substep; err is the rounding of line 327
RotateShip(ship, rotation, dt, err) ==
  [ship EXCEPT !.heading = FloatMod(@ + ROTATION_RATES(rotation) * dt * Grain + err)]

\* ship_a and ship_b as _initialize_match builds them, each with its orders
InitHeading ==
  /\ \E start \in { 0, HalfTurn } :
       heap = << [Ship(100, 250, 0, 100, 100, "WIDE", 0) EXCEPT !.heading = start * Grain],
                 Orders("STOP", "NONE", "MAINTAIN_CONFIG", << >>) >>
  /\ state = 0
  /\ orders_a = 2
  /\ orders_b = 0
  /\ new_state = 0
  /\ valid_orders_a = 2
  /\ valid_orders_b = 0
  /\ events = << >>
  /\ substep = 0
  /\ pc = "idle"
  /\ call = None
  /\ at_eval = None
  /\ prev = None
  /\ calls = 0

\* a turn begins with the rotation command of the ship's orders
TurnStart ==
  /\ pc = "idle"
  /\ calls < MaxHeadingTurns
  /\ \E rotation \in { "NONE", "SOFT_LEFT", "SOFT_RIGHT", "HARD_LEFT", "HARD_RIGHT" } :
       heap' = [heap EXCEPT ![orders_a].rotation = rotation]
  /\ calls' = calls + 1
  /\ substep' = 0
  /\ pc' = "loop"
  /\ UNCHANGED << state, orders_a, orders_b, new_state, valid_orders_a, valid_orders_b,
                  events, call, at_eval, prev >>

\* one substep of the loop: the rotation part of _update_ship_physics
RotateSubstep ==
  /\ pc = "loop"
  /\ substep < substeps
  /\ \E err \in RoundingOf(heap[1].heading, ROTATION_RATES(heap[valid_orders_a].rotation) * fixed_timestep * Grain) :
       heap' = [heap EXCEPT ![1] = RotateShip(@, heap[valid_orders_a].rotation, fixed_timestep, err)]
  /\ substep' = substep + 1
  /\ UNCHANGED << state, orders_a, orders_b, new_state, valid_orders_a, valid_orders_b,
                  events, pc, call, at_eval, prev, calls >>

\* the turn is over after the last substep
TurnEnd ==
  /\ pc = "loop"
  /\ substep = substeps
  /\ pc' = "idle"
  /\ UNCHANGED << heap, state, orders_a, orders_b, new_state, valid_orders_a, valid_orders_b,
                  events, substep, call, at_eval, prev, calls >>

NextHeading == TurnStart \/ RotateSubstep \/ TurnEnd

SpecHeading == InitHeading /\ [][NextHeading]_vars

\* C27: after every substep of any sequence of rotation commands the ship's
\* heading is at least 0 and below 2*pi
C27_HeadingWrapped ==
  /\ heap[1].heading >= 0
  /\ heap[1].heading < FullTurn * Grain

\* ---------------------------------------------------------------------------
\* Phaser cooldown
\* ---------------------------------------------------------------------------

\* every ShipState object made so far: the caller's, the engine's copies
ShipObjects == { r \in DOMAIN heap : "phaser_cooldown_remaining" \in DOMAIN heap[r] }

\* C28: phaser_cooldown_remaining is >= 0 in every ship object at all times:
\* in the ships a caller constructs, in the copies resolve_turn works on, after
\* every substep and after a shot has set the cooldown
C28_CooldownNonNegative ==
  \A r \in ShipObjects : heap[r].phaser_cooldown_remaining >= 0

\* a cooldown of 10.0 s in the state passed in has run down to 0.0 in substep
\* 100 and has stayed there for the substeps after it
C28_Witness ==
  /\ pc = "loop"
  /\ substep > 100
  /\ call[1].state.ship_b.phaser_cooldown_remaining = 100
  /\ View(heap, new_state).ship_b.phaser_cooldown_remaining = 0

\* ---------------------------------------------------------------------------
\* LLMAdapter.get_orders_for_both_ships
\* ---------------------------------------------------------------------------

\* solicitations that are followed
MaxSolicitations == 2

MovementDirection ==
  { "FORWARD", "FORWARD_LEFT", "FORWARD_RIGHT", "LEFT", "RIGHT", "BACKWARD",
    "BACKWARD_LEFT", "BACKWARD_RIGHT", "STOP" }

RotationCommand == { "NONE", "SOFT_LEFT", "SOFT_RIGHT", "HARD_LEFT", "HARD_RIGHT" }

_default_orders == Orders("STOP", "NONE", "MAINTAIN_CONFIG", << >>)

\* a response text that is a JSON object; << >> stands for a missing key
Json(ship_movement, ship_rotation, weapon_action) ==
  [json |-> TRUE, ship_movement |-> ship_movement, ship_rotation |-> ship_rotation,
   weapon_action |-> weapon_action]

\* what litellm.acompletion can come back with: a JSON object (complete, in
\* lower case and with an unknown rotation, or empty), text that is not JSON,
\* litellm.Timeout, or another exception
Completions ==
  { [kind |-> "response", text |-> Json(Some("FORWARD"), Some("HARD_LEFT"), Some("LAUNCH_TORPEDO"))],
    [kind |-> "response", text |-> Json(Some("BACKWARD"), Some("NONE"), Some("CONFIGURE_FOCUSED"))],
    [kind |-> "response", text |-> Json(Some("forward"), Some("SPIN"), Some("MAINTAIN_CONFIG"))],
    [kind |-> "response", text |-> Json(None, None, None)],
    [kind |-> "response", text |-> [json |-> FALSE]],
    [kind |-> "Timeout"],
    [kind |-> "Exception"] }

\* (orders, thinking) of _parse_orders
_parse_orders(response_text) ==
  IF response_text.json
  THEN LET movement_str == str_upper(IF response_text.ship_movement = None THEN "STOP"
                                     ELSE response_text.ship_movement[1])
           rotation_str == str_upper(IF response_text.ship_rotation = None THEN "NONE"
                                     ELSE response_text.ship_rotation[1])
       IN [orders |-> Orders(IF movement_str \in MovementDirection THEN movement_str ELSE "STOP",
                             IF rotation_str \in RotationCommand THEN rotation_str ELSE "NONE",
                             IF response_text.weapon_action = None THEN "MAINTAIN_CONFIG"
                             ELSE response_text.weapon_action[1],
                             << >>),
           thinking |-> "thinking"]
  ELSE [orders |-> _default_orders, thinking |-> "JSON PARSE ERROR"]

\* _get_orders_for_ship from the await on: what the coroutine returns
_get_orders_for_ship(completion) ==
  CASE completion.kind = "response" -> _parse_orders(completion.text)
    [] completion.kind = "Timeout" -> [orders |-> _default_orders, thinking |-> "TIMEOUT"]
    [] OTHER -> [orders |-> _default_orders, thinking |-> "ERROR"]

\* one of the two coroutines: where it is, what happened to it (completion),
\* and how it ended: with an exception or with a value
Task(at, completion, exception, value) ==
  [at |-> at, completion |-> completion, exception |-> exception, value |-> value]

\* variant: asyncio.gather without return_exceptions: the first exception is
\* raised to the caller
gather_raising(tasks) ==
  [raises |-> \E i \in 1..Len(tasks) : tasks[i].exception,
   results |-> [i \in 1..Len(tasks) |-> tasks[i]]]

\* asyncio.gather(..., return_exceptions=True): exceptions become results
gather(tasks) == [raises |-> FALSE, results |-> [i \in 1..Len(tasks) |-> tasks[i]]]

_handle_result(result) ==
  IF result.exception
  THEN [orders |-> _default_orders, thinking |-> "ERROR"]
  ELSE result.value

InitAdapter ==
  /\ heap = << >>
  /\ state = 0
  /\ orders_a = 0
  /\ orders_b = 0
  /\ new_state = 0
  /\ valid_orders_a = 0
  /\ valid_orders_b = 0
  /\ events = << >>
  /\ substep = 0
  /\ pc = "idle"
  /\ call = None
  /\ at_eval = None
  /\ prev = None
  /\ calls = 0

\* get_orders_for_both_ships is called: both coroutines are scheduled
Solicit ==
  /\ pc \in { "idle", "returned" }
  /\ calls < MaxSolicitations
  /\ heap' = << Task("start", None, FALSE, None), Task("start", None, FALSE, None) >>
  /\ orders_a' = 0
  /\ orders_b' = 0
  /\ call' = None
  /\ pc' = "gather"
  /\ calls' = calls + 1
  /\ UNCHANGED << state, new_state, valid_orders_a, valid_orders_b, events, substep,
                  at_eval, prev >>

\* line 83: _build_prompt runs before the try block; it returns, or raises
\* and ends the coroutine with that exception
BuildPrompt(i) ==
  /\ pc = "gather"
  /\ heap[i].at = "start"
  /\ \/ heap' = [heap EXCEPT ![i].at = "awaiting"]
     \/ heap' = [heap EXCEPT ![i] = Task("done", Some([kind |-> "prompt"]), TRUE, None)]
  /\ UNCHANGED << state, orders_a, orders_b, new_state, valid_orders_a, valid_orders_b,
                  events, substep, pc, call, at_eval, prev, calls >>

\* lines 85-105: the completion arrives, or fails, and the coroutine returns
Complete(i) ==
  /\ pc = "gather"
  /\ heap[i].at = "awaiting"
  /\ \E completion \in Completions :
       heap' = [heap EXCEPT ![i] = Task("done", Some(completion), FALSE,
                                        _get_orders_for_ship(completion))]
  /\ UNCHANGED << state, orders_a, orders_b, new_state, valid_orders_a, valid_orders_b,
                  events, substep, pc, call, at_eval, prev, calls >>

Gathered(g) ==
  IF g.raises
  THEN /\ pc' = "failed"
       /\ UNCHANGED << heap, orders_a, orders_b, call >>
  ELSE /\ heap' = heap \o << _handle_result(g.results[1]).orders,
                             _handle_result(g.results[2]).orders >>
       /\ orders_a' = Len(heap) + 1
       /\ orders_b' = Len(heap) + 2
       /\ call' = Some([thinking_a |-> _handle_result(g.results[1]).thinking,
                        thinking_b |-> _handle_result(g.results[2]).thinking])
       /\ pc' = "returned"

\* lines 54-64: both coroutines are done; the results are handled and returned
ReturnOrders ==
  /\ pc = "gather"
  /\ \A i \in 1..2 : heap[i].at = "done"
  /\ Gathered(gather(SubSeq(heap, 1, 2)))
  /\ UNCHANGED << state, new_state, valid_orders_a, valid_orders_b, events, substep,
                  at_eval, prev, calls >>

NextAdapter == Solicit \/ (\E i \in 1..2 : BuildPrompt(i)) \/ (\E i \in 1..2 : Complete(i)) \/ ReturnOrders

SpecAdapter == InitAdapter /\ [][NextAdapter]_vars

\* obtaining this side's orders failed, raised or timed out
SideFailed(task) ==
  \/ task.exception
  \/ task.completion[1].kind \in { "Timeout", "Exception" }
  \/ task.completion[1].kind = "response" /\ ~ task.completion[1].text.json

\* the side answered with a JSON object whose fields are all present and valid
WellFormed(task) ==
  /\ ~ task.exception
  /\ task.completion[1].kind = "response"
  /\ task.completion[1].text.json
  /\ task.completion[1].text.ship_movement # None
  /\ task.completion[1].text.ship_movement[1] \in MovementDirection
  /\ task.completion[1].text.ship_rotation # None
  /\ task.completion[1].text.ship_rotation[1] \in RotationCommand
  /\ task.completion[1].text.weapon_action # None

OrdersOfSide(i) == heap[IF i = 1 THEN orders_a ELSE orders_b]

\* C29: get_orders_for_both_ships never fails; when it has returned, a side
\* whose solicitation failed, raised or timed out has the default orders, and
\* a side that answered with well-formed orders has exactly those orders,
\* whatever happened to the other side
C29_FailureIsolation ==
  /\ pc # "failed"
  /\ pc = "returned" =>
       \A i \in 1..2 :
         /\ SideFailed(heap[i]) => OrdersOfSide(i) = _default_orders
         /\ WellFormed(heap[i]) =>
              /\ OrdersOfSide(i).movement = heap[i].completion[1].text.ship_movement[1]
              /\ OrdersOfSide(i).rotation = heap[i].completion[1].text.ship_rotation[1]
              /\ OrdersOfSide(i).weapon_action = heap[i].completion[1].text.weapon_action[1]
              /\ OrdersOfSide(i).torpedo_orders = << >>

\* ship_a's coroutine ended with an exception raised outside its try block,
\* ship_b answered with orders of its own, and both sets of orders are back
C29_Witness ==
  /\ pc = "returned"
  /\ heap[1].exception
  /\ WellFormed(heap[2])
  /\ OrdersOfSide(1) = _default_orders
  /\ OrdersOfSide(2) = Orders("FORWARD", "HARD_LEFT", "LAUNCH_TORPEDO", << >>)

\* ---------------------------------------------------------------------------
\* MatchOrchestrator.run_match
\* ---------------------------------------------------------------------------

\* the max_turns argument of run_match
max_turns == 3

\* ships facing each other 20 units apart, inside both phaser arcs
Duel(shields_a, shields_b) ==
  Start(Ship(100, 250, 0, shields_a, 100, "WIDE", 0),
        Ship(120, 250, 180, shields_b, 100, "WIDE", 0))

MatchScenarios ==
  { \* MatchOrchestrator._initialize_match: out of each other's range
    Start(Ship(100, 250, 0, 100, 100, "WIDE", 0),
          Ship(900, 250, 180, 100, 100, "WIDE", 0)),
    Duel(100, 15), Duel(15, 15), Duel(30, 100), Duel(45, 100), Duel(100, 100) }

MatchMenuA ==
  { O("STOP", "NONE", "MAINTAIN_CONFIG"),
    O("STOP", "NONE", "CONFIGURE_FOCUSED") }

InitMatch == \E sc \in MatchScenarios : InitFrom(sc)

\* lines 29-35: the orders of the turn are obtained and resolve_turn is called
PlayTurn ==
  /\ pc = "idle"
  /\ calls < max_turns
  /\ \E oa \in MatchMenuA :
       LET h0 == heap \o << MakeOrders(heap, state, oa, "ship_a"),
                            MakeOrders(heap, state, O("STOP", "NONE", "MAINTAIN_CONFIG"), "ship_b") >>
       IN /\ orders_a' = Len(heap) + 1
          /\ orders_b' = Len(heap) + 2
          /\ call' = Some([state |-> View(heap, state), orders_a |-> h0[Len(heap) + 1],
                           orders_b |-> h0[Len(heap) + 2], shared |-> FALSE, rerun |-> FALSE])
          /\ ResolveTurnBegin(h0, state, Len(heap) + 1, Len(heap) + 2)
  /\ calls' = calls + 1
  /\ UNCHANGED << state, prev >>

\* variant: a ship counts as destroyed only below 0 shields
_check_win_condition_strict(h, st) ==
  LET a_dead == h[h[st].ship_a].shields < 0
      b_dead == h[h[st].ship_b].shields < 0
  IN IF a_dead /\ b_dead THEN Some("tie")
     ELSE IF a_dead THEN Some("ship_b")
     ELSE IF b_dead THEN Some("ship_a")
     ELSE None

\* lines 83-94
_check_win_condition(h, st) ==
  LET a_dead == h[h[st].ship_a].shields <= 0
      b_dead == h[h[st].ship_b].shields <= 0
  IN IF a_dead /\ b_dead THEN Some("tie")
     ELSE IF a_dead THEN Some("ship_b")
     ELSE IF b_dead THEN Some("ship_a")
     ELSE None

\* replay_recorder.finalize(winner, total_turns): the result of the match
finalize(winner, total_turns) == [winner |-> winner, total_turns |-> total_turns]

TurnPlayed(winner) ==
  IF winner # None
  THEN /\ heap' = Append(heap, finalize(winner[1], calls))
       /\ pc' = "completed"
  ELSE IF calls = max_turns
  THEN /\ heap' = Append(heap, finalize("tie", max_turns))
       /\ pc' = "completed"
  ELSE /\ heap' = heap
       /\ pc' = "idle"

\* lines 38-51: state = new_state, the win check, and the end of the loop
EndTurn ==
  /\ pc = "returned"
  /\ state' = new_state
  /\ TurnPlayed(_check_win_condition(heap, new_state))
  /\ UNCHANGED << orders_a, orders_b, new_state, valid_orders_a, valid_orders_b, events,
                  substep, call, at_eval, prev, calls >>

NextMatch == PlayTurn \/ Substep \/ Return \/ EndTurn

SpecMatch == InitMatch /\ [][NextMatch]_vars

\* the result the match was finalized with
MatchResult == heap[Len(heap)]

Dead(ship) == ship.shields <= 0

C33_ZoneStartsNextSubstep ==
  [][/\ SubstepTaken =>
          /\ \A z \in ZoneRefs(heap') \ ZoneRefs(heap) :
               /\ heap'[z].age = 0
               /\ heap'[z].current_radius = 0
               /\ heap'[z].phase = "expansion"
          /\ \A z \in ZoneRefs(heap) :
               /\ heap'[z].age = heap[z].age + fixed_timestep
               /\ heap[z].age = 0 =>
                    /\ heap'[z].current_radius = Grow(0, fixed_timestep)
                    /\ heap'[z].phase = "expansion"
     /\ ~ SubstepTaken =>
          View(heap', Current').blast_zones = View(heap, Current).blast_zones]_vars

\* the zone of a torpedo that detonated in the last substep of the first turn
\* has been advanced once by the first substep of the second turn
C33_Witness ==
  /\ calls = 2
  /\ pc = "loop"
  /\ substep = 1
  /\ \E z \in ZoneRefs(heap) :
       /\ heap[z].age = fixed_timestep
       /\ heap[z].current_radius = Grow(0, fixed_timestep)

\* ---------------------------------------------------------------------------
\* Beam evaluation of the two ships
\* ---------------------------------------------------------------------------

\* the beam of a ship is due on the state the substep loop left
HitDue(id) ==
  /\ ~ EvalShip(id).reconfiguring_phaser
  /\ EvalShip(id).phaser_cooldown_remaining <= 0
  /\ InArcAndRange(EvalShip(id), EvalShip(Other(id)))

PaidInFull(ae, o) ==
  Min(ae - _get_movement_ae_rate(o.movement) * fixed_timestep
         - _get_rotation_ae_rate(o.rotation) * fixed_timestep
         + ae_regen_per_second * fixed_timestep,
      max_ae)

\* C35: in every substep of a turn, a ship whose submitted movement and
\* rotation were applied unchanged pays the whole cost of the substep: its
\* energy after the substep is its energy before, less the two costs, plus the
\* regeneration (capped at max_ae), and that value is not below 0, so the
\* clamp at 0 takes nothing off the bill; this also when the ship launched a
\* torpedo in the turn.
C35_ValidatedOrdersAffordable ==
  [][SubstepTaken =>
       \A id \in ShipIds :
         Kept(Submitted(id), Applied(id)) =>
           LET ship == IF id = "ship_a" THEN heap[new_state].ship_a ELSE heap[new_state].ship_b
           IN /\ PaidInFull(heap[ship].ae, Applied(id)) >= 0
              /\ heap'[ship].ae = PaidInFull(heap[ship].ae, Applied(id))]_vars

\* ---------------------------------------------------------------------------
\* Number of torpedoes in flight per ship
\* ---------------------------------------------------------------------------

\* C36: in every state of a run that starts with no ship above the cap, the
\* state the caller holds and the state being built each list at most
\* max_active_per_ship torpedoes of each ship.
C36_TorpedoCap ==
  \A id \in ShipIds :
    /\ Len(Owned(View(heap, state), id)) <= max_active_per_ship
    /\ new_state # 0 => Len(Owned(View(heap, new_state), id)) <= max_active_per_ship

\* a ship at the cap with energy for a launch submitted LAUNCH_TORPEDO and was
\* refused; later in the turn one of its torpedoes has detonated
C36_Witness ==
  /\ InCall
  /\ Submitted("ship_a").weapon_action = "LAUNCH_TORPEDO"
  /\ InShip("ship_a").ae >= launch_cost_ae
  /\ Len(Owned(call[1].state, "ship_a")) = max_active_per_ship
  /\ LaunchEvents("ship_a") = 0
  /\ Len(Owned(View(heap, new_state), "ship_a")) < max_active_per_ship

\* ---------------------------------------------------------------------------
\* Damage carried by a blast zone
\* ---------------------------------------------------------------------------

\* C37: every blast zone, whether passed in or created by a timed or an
\* automatic detonation, has base_damage >= 0.
C37_BaseDamageNonNegative ==
  \A z \in ZoneObjects(heap) : heap[z].base_damage >= 0

\* ---------------------------------------------------------------------------
\* What the end of a turn may change
\* ---------------------------------------------------------------------------

EventTypes ==
  { "torpedo_launched", "phaser_reconfigured", "torpedo_detonated", "phaser_hit",
    "blast_damage" }

\* C38: in a returned turn every event is a launch, a reconfiguration, a
\* detonation, a beam hit or a zone-damage tick; after the substep loop a
\* ship's shields change only by the beam hits it took; and every torpedo that
\* the substep loop left in flight with fuel above 0 is still in the returned
\* state, however near a ship it is.
C38_OnlyBeamsAndZones ==
  Returned =>
    /\ \A i \in 1..Len(events) : events[i].type \in EventTypes
    /\ \A id \in ShipIds :
         OutShip(id).shields = EvalShip(id).shields - SumDamage(events, "phaser_hit", id)
    /\ \A i \in 1..Len(at_eval[1].torpedoes) :
         at_eval[1].torpedoes[i].ae_remaining > 0
           => InFlight(View(heap, new_state), at_eval[1].torpedoes[i].id)

\* ---------------------------------------------------------------------------
\* Identifiers of torpedoes and zones
\* ---------------------------------------------------------------------------

\* no two entries of a list of torpedoes or zones carry the same id
DistinctIds(list) ==
  \A i, j \in 1..Len(list) : i # j => list[i].id # list[j].id

\* torpedoes of a state that a torpedo_orders key addresses
Addressed(v, key) == { i \in 1..Len(v.torpedoes) : v.torpedoes[i].id = key }

\* C39: in the state the caller holds and in the state being built, the ids of
\* the torpedoes are pairwise distinct and the ids of the zones are pairwise
\* distinct, and during a call every key of the submitted torpedo_orders
\* addresses at most one torpedo.
C39_DistinctIds ==
  /\ DistinctIds(View(heap, state).torpedoes)
  /\ DistinctIds(View(heap, state).blast_zones)
  /\ new_state # 0 =>
       /\ DistinctIds(View(heap, new_state).torpedoes)
       /\ DistinctIds(View(heap, new_state).blast_zones)
  /\ InCall =>
       \A id \in ShipIds : \A key \in DOMAIN Submitted(id).torpedo_orders :
         Cardinality(Addressed(View(heap, new_state), key)) <= 1

\* second turn of a run: ship_a has launched a torpedo while an older one of
\* its own is in flight, and two zones made by detonations of the first turn
\* are on the field
C39_Witness ==
  /\ calls = 2
  /\ pc = "loop"
  /\ LET v == View(heap, new_state) IN
       /\ InFlight(v, << "ship_a", "torpedo", v.turn >>)
       /\ Len(Owned(v, "ship_a")) >= 2
       /\ Cardinality({ i \in 1..Len(v.blast_zones) :
                          v.blast_zones[i].age <= decision_interval_seconds + substep }) >= 2

\* ---------------------------------------------------------------------------
\* Lifetime of a torpedo
\* ---------------------------------------------------------------------------

\* fuel burnt over the substeps of one turn
BurnPerTurn == ae_burn_straight_per_second * fixed_timestep * substeps

\* C40: every substep takes the same burn off the fuel of every torpedo that
\* is in flight when it starts, whatever the torpedo was commanded; and a
\* returned state holds no torpedo with fuel <= 0, so a torpedo passed in with
\* no more fuel than one turn burns is gone from the returned state, and one
\* that is still in flight has exactly one turn's burn less.
C40_TorpedoRunsOut ==
  [][/\ SubstepTaken =>
          \A r \in TorpedoRefs(heap) :
            heap'[r].ae_remaining
              = heap[r].ae_remaining - ae_burn_straight_per_second * fixed_timestep
     /\ pc' = "returned" /\ pc = "loop" =>
          /\ \A r \in TorpedoRefs(heap') : heap'[r].ae_remaining > 0
          /\ \A i \in 1..Len(call[1].state.torpedoes) :
               LET t == call[1].state.torpedoes[i] IN
               IF t.ae_remaining <= BurnPerTurn
               THEN ~ InFlight(View(heap', new_state), t.id)
               ELSE \A r \in TorpedoRefs(heap') :
                      heap'[r].id = t.id =>
                        heap'[r].ae_remaining = t.ae_remaining - BurnPerTurn]_vars

\* a torpedo that was sent 'detonate_after:nan' and so carries a timer that
\* never expires ran out of fuel during the turn, and is gone from the returned
\* state without having detonated
C40_Witness ==
  /\ Returned
  /\ \E i \in 1..Len(call[1].state.torpedoes) :
       LET t == call[1].state.torpedoes[i] IN
       /\ Command(t) = Some(detonate_after(NaN))
       /\ t.ae_remaining <= BurnPerTurn
       /\ ~ InFlight(View(heap, new_state), t.id)
       /\ ZonesOf(View(heap, new_state), t.id) = {}

\* ---------------------------------------------------------------------------
\* ReplayRecorder and the turns MatchOrchestrator.run_match records
\* ---------------------------------------------------------------------------

\* turns of a match that are followed
MaxReplayTurns == 4

\* ReplayRecorder.__init__
ReplayRecorder(turns) == [turns |-> turns]

\* MatchOrchestrator.__init__: self.replay_recorder
replay_recorder == 4

_serialize_ship(ship) ==
  [position |-> << ship.position.x, ship.position.y >>,
   velocity |-> << ship.velocity.x, ship.velocity.y >>,
   heading |-> ship.heading, shields |-> ship.shields, ae |-> ship.ae,
   phaser_config |-> ship.phaser_config,
   reconfiguring_phaser |-> ship.reconfiguring_phaser]

_serialize_torpedo(torpedo) ==
  [id |-> torpedo.id,
   position |-> << torpedo.position.x, torpedo.position.y >>,
   velocity |-> << torpedo.velocity.x, torpedo.velocity.y >>,
   heading |-> torpedo.heading, ae_remaining |-> torpedo.ae_remaining,
   owner |-> torpedo.owner, just_launched |-> torpedo.just_launched]

\* v is the GameState with its objects by value
_serialize_state(v) ==
  [turn |-> v.turn,
   ship_a |-> _serialize_ship(v.ship_a),
   ship_b |-> _serialize_ship(v.ship_b),
   torpedoes |-> [i \in 1..Len(v.torpedoes) |-> _serialize_torpedo(v.torpedoes[i])]]

\* the record of an Orders object: movement, weapon_action and torpedo_orders
_serialize_orders(orders) ==
  [movement |-> orders.movement, weapon_action |-> orders.weapon_action,
   torpedo_orders |-> orders.torpedo_orders]

\* the objects are read when record_turn is called
record_turn(h, turn, st, oa, ob, thinking_a, thinking_b, evs) ==
  [h EXCEPT ![replay_recorder].turns =
     Append(@, [turn |-> turn,
                state |-> _serialize_state(View(h, st)),
                orders_a |-> _serialize_orders(h[oa]),
                orders_b |-> _serialize_orders(h[ob]),
                thinking_a |-> thinking_a,
                thinking_b |-> thinking_b,
                events |-> evs])]

\* entries of the scripts handed to MockLLMAdapter
ScriptMenu ==
  { O("FORWARD", "HARD_LEFT", "MAINTAIN_CONFIG"),
    O("BACKWARD_LEFT", "HARD_LEFT", "LAUNCH_TORPEDO") }

Thinking == "[SCRIPTED]"

\* MatchOrchestrator.__init__ and _initialize_match
InitReplay ==
  /\ heap = << Ship(100, 250, 0, 100, 100, "WIDE", 0),
               Ship(900, 250, 180, 100, 100, "WIDE", 0),
               GameState(0, 1, 2, << >>, << >>),
               ReplayRecorder(<< >>) >>
  /\ state = 3
  /\ orders_a = 0
  /\ orders_b = 0
  /\ new_state = 0
  /\ valid_orders_a = 0
  /\ valid_orders_b = 0
  /\ events = << >>
  /\ substep = 0
  /\ pc = "idle"
  /\ call = None
  /\ at_eval = None
  /\ prev = None
  /\ calls = 0

\* lines 33-35: state_for_replay = _copy_state(state), then resolve_turn
ResolveAfterCopy(c, oa, ob) ==
  /\ call' = Some([state |-> View(c.h, state), orders_a |-> c.h[oa], orders_b |-> c.h[ob],
                   shared |-> FALSE, rerun |-> FALSE, state_for_replay |-> c.ref])
  /\ ResolveTurnBegin(c.h, state, oa, ob)

\* lines 27-35: the scripted orders of the turn, the copy for the replay, and
\* the call of resolve_turn
PlayScripted ==
  /\ pc = "idle"
  /\ calls < MaxReplayTurns
  /\ \E oa \in ScriptMenu, ob \in ScriptMenu :
       LET h0 == heap \o << MakeOrders(heap, state, oa, "ship_a"),
                            MakeOrders(heap, state, ob, "ship_b") >>
       IN /\ orders_a' = Len(heap) + 1
          /\ orders_b' = Len(heap) + 2
          /\ ResolveAfterCopy(_copy_state(h0, state), Len(heap) + 1, Len(heap) + 2)
  /\ calls' = calls + 1
  /\ UNCHANGED << state, prev >>

\* lines 37-51: record_turn, state = new_state, the win check
RecordTurn ==
  /\ pc = "returned"
  /\ heap' = record_turn(heap, calls, call[1].state_for_replay, orders_a, orders_b,
                         Thinking, Thinking, events)
  /\ state' = new_state
  /\ pc' = IF _check_win_condition(heap, new_state) # None \/ calls = MaxReplayTurns
           THEN "completed" ELSE "idle"
  /\ UNCHANGED << orders_a, orders_b, new_state, valid_orders_a, valid_orders_b, events,
                  substep, call, at_eval, prev, calls >>

NextReplay == PlayScripted \/ Substep \/ Return \/ RecordTurn

SpecReplay == InitReplay /\ [][NextReplay]_vars

\* the record of the turn just played
LastRecord(h) == h[replay_recorder].turns[Len(h[replay_recorder].turns)]

\* C31: the step that records a turn appends one record to the replay and
\* leaves the earlier records as they are; the new record carries the turn
\* number, the movement and the rotation each side submitted for the turn, and
\* the state as it was passed to resolve_turn; no other step changes the
\* records.
C31_ReplayRecord ==
  [][IF pc = "returned"
     THEN /\ heap'[replay_recorder].turns
               = Append(heap[replay_recorder].turns, LastRecord(heap'))
          /\ LastRecord(heap').turn = calls
          /\ LastRecord(heap').state = _serialize_state(call[1].state)
          /\ LastRecord(heap').orders_a.movement = Submitted("ship_a").movement
          /\ LastRecord(heap').orders_b.movement = Submitted("ship_b").movement
          /\ "rotation" \in DOMAIN LastRecord(heap').orders_a
          /\ "rotation" \in DOMAIN LastRecord(heap').orders_b
          /\ LastRecord(heap').orders_a.rotation = Submitted("ship_a").rotation
          /\ LastRecord(heap').orders_b.rotation = Submitted("ship_b").rotation
     ELSE heap'[replay_recorder].turns = heap[replay_recorder].turns]_vars

\* ---------------------------------------------------------------------------
\* Copies of a GameState whose Vec2D values are objects of their own
\* ---------------------------------------------------------------------------
\* In this part position and velocity hold references to Vec2D objects of the
\* heap, as a ShipState, TorpedoState or BlastZone holds them. _copy_state
\* above builds each object from the attribute dictionary of the object it
\* copies, so the new object holds the references of the old one.

\* changes made to one of the two states after the copy
MaxChanges == 2

copy_ship(ship, position, velocity) ==
  ShipState(position, velocity, ship.heading, ship.shields, ship.ae, ship.phaser_config,
            ship.reconfiguring_phaser, ship.phaser_cooldown_remaining)

copy_torpedo(t, position, velocity) ==
  TorpedoState(t.id, position, velocity, t.heading, t.ae_remaining, t.owner,
               t.just_launched, t.detonation_timer)

copy_blast_zone(bz, position) ==
  BlastZone(bz.id, position, bz.base_damage, bz.phase, bz.age, bz.current_radius, bz.owner)

\* the new Vec2D objects of a ship or torpedo: position, then velocity
CopiedVectors(h, o) ==
  << Vec2D(h[h[o].position].x, h[h[o].position].y),
     Vec2D(h[h[o].velocity].x, h[h[o].velocity].y) >>

\* the new objects behind the last object of h: two Vec2D per ship and
\* torpedo, one per zone, then the ships, the torpedoes, the zones and the
\* GameState
DeepCopyObjects(h, s, n, nt, nz) ==
  CopiedVectors(h, s.ship_a) \o CopiedVectors(h, s.ship_b)
  \o [k \in 1..2 * nt |-> CopiedVectors(h, s.torpedoes[(k + 1) \div 2])[2 - (k % 2)]]
  \o [j \in 1..nz |-> Vec2D(h[h[s.blast_zones[j]].position].x,
                            h[h[s.blast_zones[j]].position].y)]
  \o << copy_ship(h[s.ship_a], n + 1, n + 2), copy_ship(h[s.ship_b], n + 3, n + 4) >>
  \o [i \in 1..nt |-> copy_torpedo(h[s.torpedoes[i]], n + 4 + 2 * i - 1, n + 4 + 2 * i)]
  \o [j \in 1..nz |-> copy_blast_zone(h[s.blast_zones[j]], n + 4 + 2 * nt + j)]
  \o << GameState(s.turn, n + 4 + 2 * nt + nz + 1, n + 4 + 2 * nt + nz + 2,
                  [i \in 1..nt |-> n + 6 + 2 * nt + nz + i],
                  [j \in 1..nz |-> n + 6 + 3 * nt + nz + j]) >>

deep_copy_game_state(h, st) ==
  [h |-> h \o DeepCopyObjects(h, h[st], Len(h), Len(h[st].torpedoes), Len(h[st].blast_zones)),
   ref |-> Len(h) + 7 + 3 * Len(h[st].torpedoes) + 2 * Len(h[st].blast_zones)]

CopyOperations == { "deep_copy_game_state", "_copy_state" }

CopyBy(op, h, st) ==
  IF op = "deep_copy_game_state" THEN deep_copy_game_state(h, st) ELSE _copy_state(h, st)

\* the ships, torpedoes and zones of a state
ObjectsOf(h, st) ==
  { h[st].ship_a, h[st].ship_b }
  \cup { h[st].torpedoes[i] : i \in 1..Len(h[st].torpedoes) }
  \cup { h[st].blast_zones[j] : j \in 1..Len(h[st].blast_zones) }

VectorFields(obj) == DOMAIN obj \cap { "position", "velocity" }

ScalarFields(obj) ==
  DOMAIN obj \cap { "turn", "heading", "shields", "ae", "ae_remaining", "base_damage", "age" }

\* what a reader of the state st sees: every object and vector by value
Snapshot(h, st) ==
  [turn |-> h[st].turn,
   ship_a |-> [h[h[st].ship_a] EXCEPT !.position = h[@], !.velocity = h[@]],
   ship_b |-> [h[h[st].ship_b] EXCEPT !.position = h[@], !.velocity = h[@]],
   torpedoes |-> [i \in 1..Len(h[st].torpedoes) |->
                    [h[h[st].torpedoes[i]] EXCEPT !.position = h[@], !.velocity = h[@]]],
   blast_zones |-> [j \in 1..Len(h[st].blast_zones) |->
                      [h[h[st].blast_zones[j]] EXCEPT !.position = h[@]]]]

\* the state of test_deep_copy_independence with a torpedo and a zone added
InitCopy ==
  /\ heap = << Vec2D(0, 0), Vec2D(0, 0),
               ShipState(1, 2, 0, 100, 100 * AE, "WIDE", FALSE, 0),
               Vec2D(100 * U, 0), Vec2D(0, 0),
               ShipState(4, 5, 0, 100, 100 * AE, "WIDE", FALSE, 0),
               Vec2D(50 * U, 0), Vec2D(torpedo_speed * TrigScale, 0),
               TorpedoState(<< "ship_a", "torpedo", 0 >>, 7, 8, 0, 40 * AE, "ship_a",
                            FALSE, None),
               Vec2D(80 * U, 10 * U),
               BlastZone(<< << "ship_b", "torpedo", 0 >>, "blast" >>, 10, 45 * AE,
                         "persistence", 100, blast_radius_units, "ship_b"),
               GameState(1, 3, 6, << 9 >>, << 11 >>) >>
  /\ state = 12
  /\ orders_a = 0
  /\ orders_b = 0
  /\ new_state = 0
  /\ valid_orders_a = 0
  /\ valid_orders_b = 0
  /\ events = << >>
  /\ substep = 0
  /\ pc = "idle"
  /\ call = None
  /\ at_eval = None
  /\ prev = None
  /\ calls = 0

\* copied = op(original); the holder of one of the two states will change it
TakeCopy ==
  /\ pc = "idle"
  /\ \E op \in CopyOperations, side \in { "original", "copy" } :
       /\ heap' = CopyBy(op, heap, state).h
       /\ new_state' = CopyBy(op, heap, state).ref
       /\ call' = Some([op |-> op, side |-> side])
  /\ at_eval' = Some(Snapshot(heap, state))
  /\ pc' = "copied"
  /\ calls' = calls + 1
  /\ UNCHANGED << state, orders_a, orders_b, valid_orders_a, valid_orders_b, events,
                  substep, prev >>

\* the state that is changed after the copy, and the one that is not
Changed == IF call[1].side = "original" THEN state ELSE new_state
Untouched == IF call[1].side = "original" THEN new_state ELSE state

NewValues == { 50, 999 }

Change(h) ==
  /\ substep < MaxChanges
  /\ heap' = h
  /\ substep' = substep + 1
  /\ UNCHANGED << state, orders_a, orders_b, new_state, valid_orders_a, valid_orders_b,
                  events, pc, call, at_eval, prev, calls >>

\* state.turn = v, state.ship_a.shields = v, ...
SetField ==
  /\ pc = "copied"
  /\ \E o \in ObjectsOf(heap, Changed) \cup { Changed } :
       \E f \in ScalarFields(heap[o]), v \in NewValues :
         Change([heap EXCEPT ![o][f] = v])

\* state.ship_a.position.x = v, ...
SetCoordinate ==
  /\ pc = "copied"
  /\ \E o \in ObjectsOf(heap, Changed) :
       \E f \in VectorFields(heap[o]), axis \in { "x", "y" }, v \in NewValues :
         Change([heap EXCEPT ![heap[o][f]][axis] = v])

\* state.ship_a.position = Vec2D(v, v), ...
SetVector ==
  /\ pc = "copied"
  /\ \E o \in ObjectsOf(heap, Changed) :
       \E f \in VectorFields(heap[o]), v \in NewValues :
         Change(Append([heap EXCEPT ![o][f] = Len(heap) + 1], Vec2D(v, v)))

\* state.torpedoes.pop(0), state.blast_zones.pop(0)
PopFirst ==
  /\ pc = "copied"
  /\ \E f \in { "torpedoes", "blast_zones" } :
       /\ heap[Changed][f] # << >>
       /\ Change([heap EXCEPT ![Changed][f] = Tail(@)])

NextCopy == TakeCopy \/ SetField \/ SetCoordinate \/ SetVector \/ PopFirst

SpecCopy == InitCopy /\ [][NextCopy]_vars

\* C32: whichever copy operation was used, and whatever the holder of one of
\* the two states has changed in it since the copy was taken (a field, a
\* coordinate of a position or velocity vector, a vector, a list), the other
\* state still reads as the original did when it was copied.
C32_CopyIndependent ==
  pc = "copied" => Snapshot(heap, Untouched) = at_eval[1]
====
